---- MODULE Spec2Model ----
(***************************************************************************)
(* MessBuddy backend (backend_py): the request handlers of the FastAPI     *)
(* application and the document collections they read and write.           *)
(*                                                                         *)
(* Every handler is an `async def`: it runs without interruption from one  *)
(* `await` of a database operation to the next, and other requests run in  *)
(* between.  A handler is therefore modelled as one action per database    *)
(* operation: the action performs the operation and the handler's local    *)
(* code up to the point where the next operation is issued.  The action    *)
(* that performs a handler's first operation also receives the request.    *)
(*                                                                         *)
(* The handler inputs are the values the request schemas let through       *)
(* (pydantic rejects everything else with 422 before the handler runs);    *)
(* path parameters typed `str` are arbitrary strings.  The document store  *)
(* executes every single operation atomically and does not fail.           *)
(***************************************************************************)
EXTENDS Integers, Sequences, FiniteSets, TLC

(***************************************************************************)
(* Bounds of the model.                                                    *)
(***************************************************************************)
NumReq == 2        \* requests that are in flight at the same time
MaxUsers == 2      \* signups that get as far as their first query
MaxClock == 1      \* the clock advances at most this many days

Procs == 1..NumReq

VARIABLES
    users,      \* collection "users"
    messes,     \* collection "messes"
    plans,      \* collection "subscriptionplans"
    subs,       \* collection "usersubscriptions"
    passes,     \* collection "mealpasses"
    checkins,   \* collection "checkins"
    posts,      \* collection "forumposts"
    now,        \* datetime.utcnow(), in days
    nextOid,    \* the next ObjectId the driver generates
    procs,      \* procs[p]: the request in flight in slot p, its position
                \* and its locals
    last,       \* the request answered last and its response
    signedUp    \* history: the signups answered 201, each with the user
                \* document it stored and the password it was given

vars == <<users, messes, plans, subs, passes, checkins, posts, now, nextOid,
          procs, last, signedUp>>

(***************************************************************************)
(* ObjectIds and their string form.  str(ObjectId) is the lower-case hex   *)
(* string; ObjectId(s) accepts 24 hex digits in either case and raises     *)
(* InvalidId for every other string.                                       *)
(***************************************************************************)
OidForms == {"lower", "upper", "bad"}

OidToStr(o) == [oid |-> o, form |-> "lower"]

IsValidOid(s) == s.form \in {"lower", "upper"}

PydanticObjectId(s) == s.oid

(***************************************************************************)
(* Exceptions and HTTP responses.  A message is the sequence of its parts. *)
(***************************************************************************)
HTTP_200_OK == 200
HTTP_201_CREATED == 201
HTTP_400_BAD_REQUEST == 400
HTTP_401_UNAUTHORIZED == 401
HTTP_403_FORBIDDEN == 403
HTTP_404_NOT_FOUND == 404
HTTP_500_INTERNAL_SERVER_ERROR == 500

HTTPException(status_code, detail) ==
    [status |-> status_code, detail |-> detail]

ValidationError(message) ==
    [message |-> <<message>>, status_code |-> HTTP_400_BAD_REQUEST]

NotFoundError(resource) ==
    [message |-> <<resource, "not found">>, status_code |-> HTTP_404_NOT_FOUND]

DuplicateError(field, value) ==
    [message |-> <<field, value, "already exists">>,
     status_code |-> HTTP_400_BAD_REQUEST]

convert_exception_to_http(exc) == HTTPException(exc.status_code, exc.message)

InternalServerError ==
    HTTPException(HTTP_500_INTERNAL_SERVER_ERROR, <<"Internal server error">>)

Contains(detail, part) == \E i \in DOMAIN detail : detail[i] = part

(***************************************************************************)
(* Requests.                                                               *)
(***************************************************************************)
Idle == [op |-> "none", pc |-> "idle", args |-> <<>>, loc |-> <<>>]

\* `last` holds the response that the latest step sent, if it sent one
NoResponse == [op |-> "none", args |-> <<>>, loc |-> <<>>, resp |-> <<>>]

\* the request in slot p waits at position pc with the locals loc
At(p, op, pc, args, loc) ==
    /\ procs' = [procs EXCEPT ![p] =
                    [op |-> op, pc |-> pc, args |-> args, loc |-> loc]]
    /\ last' = NoResponse

\* the request in slot p is answered and leaves the slot
Respond(p, op, args, loc, resp) ==
    /\ procs' = [procs EXCEPT ![p] = Idle]
    /\ last' = [op |-> op, args |-> args, loc |-> loc, resp |-> resp]

\* a request is received in the first free slot
CanStart(p) ==
    /\ procs[p].pc = "idle"
    /\ \A q \in Procs : q < p => procs[q].pc # "idle"

InFlight(op) == {p \in Procs : procs[p].op = op}

(***************************************************************************)
(* Users, passwords and tokens.                                            *)
(***************************************************************************)
USER == "User"
MESS_OWNER == "Mess Owner"
LoginRole == {USER, MESS_OWNER}

Usernames == {"ann", "bob"}
Emails == {"a@x.io", "b@x.io"}
\* passwords of at most 72 bytes, on which bcrypt is injective
Passwords == {"pw1", "pw2"}
Salts == {"s1"}

hash_password(plain_password, salt) ==
    [salt |-> salt, digest |-> <<salt, plain_password>>]

verify_password(plain_password, hashed_password) ==
    hashed_password.digest = <<hashed_password.salt, plain_password>>

JWT_EXPIRATION_HOURS == 24
HoursPerDay == 24

create_token(user_id, role) ==
    [id |-> user_id, role |-> role,
     exp |-> now + (JWT_EXPIRATION_HOURS \div HoursPerDay), iat |-> now]

is_mess_owner(user) == user.Login_Role = MESS_OWNER

is_regular_user(user) == user.Login_Role = USER

\* a public dictionary that leaks the password hash
to_public_dict_with_password(user) ==
    [id |-> OidToStr(user.id), username |-> user.username,
     email |-> user.email, Login_Role |-> user.Login_Role,
     UserID |-> user.UserID, created_at |-> user.created_at,
     password |-> user.password]
    @@ ("_id" :> OidToStr(user.id))

to_public_dict(user) ==
    [id |-> OidToStr(user.id), username |-> user.username,
     email |-> user.email, Login_Role |-> user.Login_Role,
     UserID |-> user.UserID, created_at |-> user.created_at]
    @@ ("_id" :> OidToStr(user.id))

UserResponseFields == {"id", "username", "email", "Login_Role", "UserID"}

\* UserResponse(**d): pydantic keeps the declared fields that d supplies
UserResponse(d) == [f \in UserResponseFields \cap DOMAIN d |-> d[f]]

AuthResponse(status_code, message, user, token) ==
    [status |-> status_code, success |-> TRUE, message |-> message,
     user |-> to_public_dict(user), token |-> token, cookie |-> token]

MillisPerUnit == 1000

(***************************************************************************)
(* POST /api/auth/signup                                                   *)
(***************************************************************************)
\* AuthService.signup, first query: the e-mail must be new.  The two
\* validations before it (all fields present, password of at most 128
\* characters) pass for every request that SignupRequest lets through.
SignupCheckEmail(p, username, email, password, login_role) ==
    /\ CanStart(p)
    /\ Cardinality(users) + Cardinality(InFlight("signup")) < MaxUsers
    /\ LET args == [username |-> username, email |-> email,
                    password |-> password, login_role |-> login_role]
           existing_user_by_email == {u \in users : u.email = email}
       IN IF existing_user_by_email # {}
          THEN Respond(p, "signup", args, <<>>,
                       convert_exception_to_http(DuplicateError("Email", email)))
          ELSE At(p, "signup", "signup_username", args, <<>>)
    /\ UNCHANGED <<users, messes, plans, subs, passes, checkins, posts, now,
                   nextOid, signedUp>>

\* a signup that does not query the username
SignupCheckUsername_NoQuery(p) ==
    /\ procs[p].pc = "signup_username"
    /\ At(p, "signup", "signup_insert", procs[p].args, <<>>)
    /\ UNCHANGED <<users, messes, plans, subs, passes, checkins, posts, now,
                   nextOid, signedUp>>

\* AuthService.signup, second query: the username must be new
SignupCheckUsername(p) ==
    /\ procs[p].pc = "signup_username"
    /\ LET args == procs[p].args
           existing_user_by_username ==
               {u \in users : u.username = args.username}
       IN IF existing_user_by_username # {}
          THEN Respond(p, "signup", args, <<>>,
                       convert_exception_to_http(
                           DuplicateError("Username", args.username)))
          ELSE At(p, "signup", "signup_insert", args, <<>>)
    /\ UNCHANGED <<users, messes, plans, subs, passes, checkins, posts, now,
                   nextOid, signedUp>>

\* AuthService.signup: hash the password, insert the user, create the
\* token; the router then either creates the owner's mess or answers 201
SignupInsertUser(p, salt) ==
    /\ procs[p].pc = "signup_insert"
    /\ LET args == procs[p].args
           user == [id |-> nextOid,
                    username |-> args.username,
                    email |-> args.email,
                    password |-> hash_password(args.password, salt),
                    Login_Role |-> args.login_role,
                    UserID |-> now * MillisPerUnit,
                    created_at |-> now,
                    updated_at |-> now]
           token == create_token(OidToStr(user.id), args.login_role)
       IN /\ users' = users \cup {user}
          /\ nextOid' = nextOid + 1
          /\ IF is_mess_owner(user)
             THEN /\ At(p, "signup", "signup_mess", args,
                        [user |-> user, token |-> token])
                  /\ signedUp' = signedUp
             ELSE /\ Respond(p, "signup", args, [user |-> user],
                             AuthResponse(HTTP_201_CREATED,
                                          "User created successfully",
                                          user, token))
                  /\ signedUp' = signedUp \cup
                         {[user |-> user, password |-> args.password]}
    /\     /\ UNCHANGED <<messes, plans, subs, passes, checkins, posts, now>>

DefaultImage == "gngcgm82wwo5t0desu0w.jpg"

\* a mess that refers to its owner by the numeric UserID
NewMessForOwner_NumericOwner(id, owner_id, owner) ==
    [id |-> id,
     Mess_ID |-> now * MillisPerUnit,
     Mess_Name |-> <<"Mess", now % 1000>>,
     Mobile_No |-> "",
     Capacity |-> 0,
     Address |-> "",
     Owner_ID |-> owner.UserID,
     Description |-> "",
     Ratings |-> <<>>,
     RatedBy |-> <<>>,
     UserID |-> owner.UserID,
     Image |-> DefaultImage,
     created_at |-> now,
     updated_at |-> now]

\* the document MessService.create_mess_for_owner builds
NewMessForOwner(id, owner_id, owner) ==
    [id |-> id,
     Mess_ID |-> now * MillisPerUnit,
     Mess_Name |-> <<"Mess", now % 1000>>,
     Mobile_No |-> "",
     Capacity |-> 0,
     Address |-> "",
     Owner_ID |-> PydanticObjectId(owner_id),
     Description |-> "",
     Ratings |-> <<>>,
     RatedBy |-> <<>>,
     UserID |-> owner.UserID,
     Image |-> DefaultImage,
     created_at |-> now,
     updated_at |-> now]

\* MessService.create_mess_for_owner, then the 201 response of the router
SignupInsertMess(p) ==
    /\ procs[p].pc = "signup_mess"
    /\ LET args == procs[p].args
           user == procs[p].loc.user
           mess == NewMessForOwner(nextOid, OidToStr(user.id), user)
       IN /\ messes' = messes \cup {mess}
          /\ nextOid' = nextOid + 1
          /\ Respond(p, "signup", args, [user |-> user, mess |-> mess],
                     AuthResponse(HTTP_201_CREATED,
                                  "User created successfully",
                                  user, procs[p].loc.token))
          /\ signedUp' = signedUp \cup
                 {[user |-> user, password |-> args.password]}
    /\     /\ UNCHANGED <<users, plans, subs, passes, checkins, posts, now>>

(***************************************************************************)
(* POST /api/auth/signin                                                   *)
(***************************************************************************)
\* a signin that tells an unknown user from a wrong password
Signin_UserNotFound(p, username, password, login_role) ==
    /\ CanStart(p)
    /\ LET args == [username |-> username, password |-> password,
                    login_role |-> login_role]
           found == {u \in users : /\ u.username = username
                                   /\ u.Login_Role = login_role}
           invalid == convert_exception_to_http(
                          ValidationError("Invalid credentials"))
       IN IF found = {}
          THEN Respond(p, "signin", args, <<>>,
                       convert_exception_to_http(NotFoundError("User")))
          ELSE \E user \in found :
                  IF ~verify_password(password, user.password)
                  THEN Respond(p, "signin", args, [user |-> user], invalid)
                  ELSE Respond(p, "signin", args, [user |-> user],
                               AuthResponse(HTTP_200_OK,
                                   "Authentication successful", user,
                                   create_token(OidToStr(user.id),
                                                login_role)))
    /\ UNCHANGED <<users, messes, plans, subs, passes, checkins, posts, now,
                   nextOid, signedUp>>

\* find_one returns one of the matching documents; the store does not say
\* which when several match
Signin(p, username, password, login_role) ==
    /\ CanStart(p)
    /\ LET args == [username |-> username, password |-> password,
                    login_role |-> login_role]
           found == {u \in users : /\ u.username = username
                                   /\ u.Login_Role = login_role}
           invalid == convert_exception_to_http(
                          ValidationError("Invalid credentials"))
       IN IF found = {}
          THEN Respond(p, "signin", args, <<>>, invalid)
          ELSE \E user \in found :
                  IF ~verify_password(password, user.password)
                  THEN Respond(p, "signin", args, [user |-> user], invalid)
                  ELSE Respond(p, "signin", args, [user |-> user],
                               AuthResponse(HTTP_200_OK,
                                   "Authentication successful", user,
                                   create_token(OidToStr(user.id),
                                                login_role)))
    /\ UNCHANGED <<users, messes, plans, subs, passes, checkins, posts, now,
                   nextOid, signedUp>>

(***************************************************************************)
(* The dependency get_current_user and the routes of /api/user.            *)
(***************************************************************************)
NoToken == <<>>

\* the tokens handed out by the signups so far, each with the times of the
\* signup that issued it; a client presents one of them or none
IssuedTokens ==
    {[create_token(OidToStr(s.user.id), s.user.Login_Role)
         EXCEPT !.iat = s.user.created_at,
                !.exp = s.user.created_at
                            + (JWT_EXPIRATION_HOURS \div HoursPerDay)] :
        s \in signedUp}

\* TokenManager.verify_token: the signature is that of the application; the
\* token is rejected once it has expired
verify_token(token) == token.exp >= now

\* get_current_user with AuthService.verify_token_and_get_user: either the
\* user of the token or the response that ends the request.  The
\* ValidationError for a missing user is not an AuthenticationError: it
\* passes the dependency and is rendered by messbuddy_exception_handler.
get_current_user(access_token) ==
    IF access_token = NoToken
    THEN [ok |-> FALSE,
          resp |-> HTTPException(HTTP_401_UNAUTHORIZED,
                                 <<"Not authenticated">>)]
    ELSE IF ~verify_token(access_token)
    THEN [ok |-> FALSE,
          resp |-> HTTPException(HTTP_401_UNAUTHORIZED, <<"Invalid token">>)]
    ELSE LET found == {u \in users :
                          /\ IsValidOid(access_token.id)
                          /\ u.id = PydanticObjectId(access_token.id)}
         IN IF found = {}
            THEN [ok |-> FALSE,
                  resp |-> [status |-> HTTP_400_BAD_REQUEST,
                            success |-> FALSE,
                            message |-> <<"User not found">>,
                            statusCode |-> HTTP_400_BAD_REQUEST]]
            ELSE [ok |-> TRUE, user |-> CHOOSE u \in found : TRUE]

OkUser(status_code, user) ==
    [status |-> status_code, body |-> UserResponse(to_public_dict(user))]

\* GET /api/user/profile
GetProfile(p, access_token) ==
    /\ CanStart(p)
    /\ LET args == [access_token |-> access_token]
           dep == get_current_user(access_token)
       IN IF ~dep.ok
          THEN Respond(p, "get_profile", args, <<>>, dep.resp)
          ELSE Respond(p, "get_profile", args, [user |-> dep.user],
                       OkUser(HTTP_200_OK, dep.user))
    /\ UNCHANGED <<users, messes, plans, subs, passes, checkins, posts, now,
                   nextOid, signedUp>>

\* the path parameter of GET /api/user/{user_id}: a decimal number or any
\* other string
UserIdParams ==
    {[kind |-> "num", n |-> n] : n \in {0, 1}}
    \cup {[kind |-> "str", oid |-> 1, form |-> f] : f \in OidForms}

\* GET /api/user/{user_id}: the numeric UserID is tried first, then the
\* ObjectId (UserService.get_user_by_id, which maps a malformed id to
\* NotFoundError)
GetUserById(p, access_token, user_id) ==
    /\ CanStart(p)
    /\ LET args == [access_token |-> access_token, user_id |-> user_id]
           dep == get_current_user(access_token)
           found == IF user_id.kind = "num"
                    THEN {u \in users : u.UserID = user_id.n}
                    ELSE {u \in users : /\ IsValidOid(user_id)
                                        /\ u.id = PydanticObjectId(user_id)}
       IN IF ~dep.ok
          THEN Respond(p, "get_user_by_id", args, <<>>, dep.resp)
          ELSE IF found = {}
          THEN Respond(p, "get_user_by_id", args, <<>>,
                       IF user_id.kind = "num"
                       THEN HTTPException(HTTP_404_NOT_FOUND,
                                          <<"User not found">>)
                       ELSE convert_exception_to_http(NotFoundError("User")))
          ELSE \E user \in found :
                  Respond(p, "get_user_by_id", args, [user |-> user],
                          OkUser(HTTP_200_OK, user))
    /\ UNCHANGED <<users, messes, plans, subs, passes, checkins, posts, now,
                   nextOid, signedUp>>

None == "None"

\* where UserService.update_user continues with the copy `user`: at the
\* username query, at the e-mail query or at the save
UpdatePcAfterGet(user, username, email) ==
    IF username # None /\ username # user.username THEN "update_username"
    ELSE IF email # None /\ email # user.email THEN "update_email"
    ELSE "update_save"

UpdatePcAfterUsername(user, email) ==
    IF email # None /\ email # user.email THEN "update_email"
    ELSE "update_save"

\* PUT /api/user/profile: the dependency, then UserService.get_user_by_id
\* reads the copy that the handler edits.  User documents are never deleted
\* and their ids never change, so the two reads are one step.
UpdateProfileGet(p, access_token, username, email) ==
    /\ CanStart(p)
    /\ LET args == [access_token |-> access_token, username |-> username,
                    email |-> email]
           dep == get_current_user(access_token)
       IN IF ~dep.ok
          THEN Respond(p, "update_profile", args, <<>>, dep.resp)
          ELSE At(p, "update_profile",
                  UpdatePcAfterGet(dep.user, username, email), args,
                  [user |-> dep.user])
    /\ UNCHANGED <<users, messes, plans, subs, passes, checkins, posts, now,
                   nextOid, signedUp>>

\* UserService.update_user: the new username must not be taken
UpdateProfileCheckUsername(p) ==
    /\ procs[p].pc = "update_username"
    /\ LET args == procs[p].args
           user == procs[p].loc.user
           existing == {u \in users : u.username = args.username}
           edited == [user EXCEPT !.username = args.username]
       IN IF existing # {}
          THEN Respond(p, "update_profile", args, [user |-> user],
                       convert_exception_to_http(
                           DuplicateError("Username", args.username)))
          ELSE At(p, "update_profile",
                  UpdatePcAfterUsername(edited, args.email), args,
                  [user |-> edited])
    /\ UNCHANGED <<users, messes, plans, subs, passes, checkins, posts, now,
                   nextOid, signedUp>>

\* UserService.update_user: the new e-mail must not be taken
UpdateProfileCheckEmail(p) ==
    /\ procs[p].pc = "update_email"
    /\ LET args == procs[p].args
           user == procs[p].loc.user
           existing == {u \in users : u.email = args.email}
       IN IF existing # {}
          THEN Respond(p, "update_profile", args, [user |-> user],
                       convert_exception_to_http(
                           DuplicateError("Email", args.email)))
          ELSE At(p, "update_profile", "update_save", args,
                  [user |-> [user EXCEPT !.email = args.email]])
    /\ UNCHANGED <<users, messes, plans, subs, passes, checkins, posts, now,
                   nextOid, signedUp>>

\* Document.save(): every field of the stored document with this id is set
\* to the value of the copy; the document is inserted if it is not there
Save(collection, doc) == {d \in collection : d.id # doc.id} \cup {doc}

\* UserService.update_user: save the copy, answer with its public fields
UpdateProfileSave(p) ==
    /\ procs[p].pc = "update_save"
    /\ LET args == procs[p].args
           user == procs[p].loc.user
       IN /\ users' = Save(users, user)
          /\ Respond(p, "update_profile", args, [user |-> user],
                     OkUser(HTTP_200_OK, user))
    /\ UNCHANGED <<messes, plans, subs, passes, checkins, posts, now,
                   nextOid, signedUp>>

(***************************************************************************)
(* The authentication and profile routes on an empty database.             *)
(***************************************************************************)
InitAuth ==
    /\ users = {}
    /\ messes = {}
    /\ plans = {}
    /\ subs = {}
    /\ passes = {}
    /\ checkins = {}
    /\ posts = {}
    /\ now = 0
    /\ nextOid = 1
    /\ procs = [p \in Procs |-> Idle]
    /\ last = NoResponse
    /\ signedUp = {}

\* the requests the clients send
SignupRequests ==
    {[username |-> "ann", email |-> "a@x.io", password |-> "pw1",
      login_role |-> USER],
     [username |-> "ann", email |-> "b@x.io", password |-> "pw2",
      login_role |-> USER],
     [username |-> "bob", email |-> "a@x.io", password |-> "pw1",
      login_role |-> MESS_OWNER]}

SigninRequests ==
    {[username |-> "ann", password |-> "pw1", login_role |-> USER],
     [username |-> "ann", password |-> "pw2", login_role |-> USER],
     [username |-> "bob", password |-> "pw1", login_role |-> USER],
     [username |-> "bob", password |-> "pw1", login_role |-> MESS_OWNER]}

UpdateRequests ==
    {[username |-> "bob", email |-> "b@x.io"]}

\* the actions of one request slot: signup, signin and profile update
AuthStep(p) ==
    \/ \E r \in SignupRequests :
            SignupCheckEmail(p, r.username, r.email, r.password, r.login_role)
    \/ SignupCheckUsername(p)
    \/ \E salt \in Salts : SignupInsertUser(p, salt)
    \/ SignupInsertMess(p)
    \/ \E r \in SigninRequests :
            Signin(p, r.username, r.password, r.login_role)
    \/ \E access_token \in IssuedTokens \cup {NoToken},
          r \in UpdateRequests :
            UpdateProfileGet(p, access_token, r.username, r.email)
    \/ UpdateProfileCheckUsername(p)
    \/ UpdateProfileCheckEmail(p)
    \/ UpdateProfileSave(p)

\* the routes that only read a user
ReadStep(p) ==
    \/ \E access_token \in IssuedTokens \cup {NoToken} :
            GetProfile(p, access_token)
    \/ \E access_token \in IssuedTokens \cup {NoToken},
          user_id \in UserIdParams :
            GetUserById(p, access_token, user_id)

NextAuth == \E p \in Procs : AuthStep(p)

\* concurrent signup, signin and profile-update requests
SpecAuth == InitAuth /\ [][NextAuth]_vars

NextProfile == AuthStep(1) \/ ReadStep(1)

\* all routes that return a user, one request at a time
SpecProfile == InitAuth /\ [][NextProfile]_vars

(***************************************************************************)
(* Claims on signup, signin and the profile routes.                        *)
(***************************************************************************)
Rejected(status_code) ==
    /\ last' # NoResponse
    /\ last'.resp.status = status_code
    /\ "token" \notin DOMAIN last'.resp

\* C1: a signup whose e-mail is the e-mail of a stored user when the
\* handler queries the e-mail, or whose username is the username of a
\* stored user when the handler queries the username, is answered 400 with
\* a detail containing 'already exists', and the users and messes
\* collections are unchanged.  The e-mail query is the step that receives
\* a signup: the request then waits in its slot, or it is answered and no
\* slot changes its position.  The username query is the step that takes
\* a request from the position signup_username.
C1_DuplicateSignupRejected ==
    [][\A p \in Procs :
          /\ ( /\ CanStart(p)
               /\ \/ procs'[p].op = "signup"
                  \/ /\ last'.op = "signup"
                     /\ \A q \in Procs : procs'[q].pc = procs[q].pc )
             => LET email == IF procs'[p].op = "signup"
                             THEN procs'[p].args.email
                             ELSE last'.args.email
                IN (\E u \in users : u.email = email)
                   => ( /\ Rejected(HTTP_400_BAD_REQUEST)
                        /\ Contains(last'.resp.detail, "already exists")
                        /\ last'.args.email = email
                        /\ users' = users /\ messes' = messes )
          /\ ( /\ procs[p].pc = "signup_username"
               /\ procs'[p].pc # "signup_username"
               /\ \E u \in users : u.username = procs[p].args.username )
             => ( /\ Rejected(HTTP_400_BAD_REQUEST)
                  /\ Contains(last'.resp.detail, "already exists")
                  /\ last'.args = procs[p].args
                  /\ users' = users /\ messes' = messes )
      ]_vars

\* a signup was just rejected because its username is taken although its
\* e-mail is new
C1_Witness ==
    /\ last.op = "signup"
    /\ last.resp.status = HTTP_400_BAD_REQUEST
    /\ Contains(last.resp.detail, "Username")
    /\ \E u \in users : u.username = last.args.username
    /\ \A u \in users : u.email # last.args.email

\* C2: in every reachable state no two user documents have the same e-mail
\* and no two have the same username.
C2_UniqueUsernamesAndEmails ==
    \A u, v \in users :
        u.id # v.id => u.email # v.email /\ u.username # v.username

\* the signups answered 201 whose user document is stored as it was created
\* and that were made with these credentials
SignedUpWith(username, password, login_role) ==
    {s \in signedUp : /\ s.user \in users
                      /\ s.user.username = username
                      /\ s.password = password
                      /\ s.user.Login_Role = login_role}

\* C3: a signin with the username, password and role of a signup that was
\* answered 201, whose user document is unmodified, is answered 200 with
\* success, that user's public data and a token with that user's id and
\* role.
C3_SigninAfterSignup ==
    last.op = "signin" =>
        \A s \in SignedUpWith(last.args.username, last.args.password,
                              last.args.login_role) :
            /\ last.resp.status = HTTP_200_OK
            /\ last.resp.success
            /\ last.resp.user = to_public_dict(s.user)
            /\ last.resp.token.id = OidToStr(s.user.id)
            /\ last.resp.token.role = last.args.login_role

InvalidCredentials ==
    HTTPException(HTTP_400_BAD_REQUEST, <<"Invalid credentials">>)

\* C4: a signin for which no stored user has the username together with the
\* role, or for which the password does not match the hash of the user
\* found, is answered 400 'Invalid credentials' (the same response in both
\* cases) without a token, and no collection changes.
C4_SigninRejected ==
    [][last'.op = "signin"
          => LET r == last'.args
                 nobody == ~ \E u \in users : /\ u.username = r.username
                                              /\ u.Login_Role = r.login_role
                 mismatch == /\ "user" \in DOMAIN last'.loc
                             /\ ~verify_password(r.password,
                                                 last'.loc.user.password)
             IN /\ (nobody \/ mismatch)
                   => /\ last'.resp = InvalidCredentials
                      /\ "token" \notin DOMAIN last'.resp
                /\ <<users, messes, plans, subs, passes>>' =
                       <<users, messes, plans, subs, passes>>
      ]_vars

\* a signin with the wrong password for a stored user was just rejected
C4_Witness ==
    /\ last.op = "signin"
    /\ last.resp = InvalidCredentials
    /\ "user" \in DOMAIN last.loc
    /\ last.loc.user \in users
    /\ ~verify_password(last.args.password, last.loc.user.password)

\* the messes whose Owner_ID is the user of the response
MessesOfNewUser ==
    {m \in messes : m.Owner_ID = PydanticObjectId(last.resp.user.id)}

\* C5: when a signup is answered 201, the role 'Mess Owner' leaves exactly
\* one mess whose Owner_ID is the new user's id, with no Ratings and no
\* RatedBy, and the role 'User' leaves none.
C5_OwnerSignupCreatesMess ==
    (last.op = "signup" /\ last.resp.status = HTTP_201_CREATED)
    => IF last.args.login_role = MESS_OWNER
       THEN /\ Cardinality(MessesOfNewUser) = 1
            /\ \A m \in MessesOfNewUser :
                  m.Ratings = <<>> /\ m.RatedBy = <<>>
       ELSE MessesOfNewUser = {}

\* a Mess Owner was just signed up
C5_Witness ==
    /\ last.op = "signup"
    /\ last.resp.status = HTTP_201_CREATED
    /\ last.args.login_role = MESS_OWNER
    /\ MessesOfNewUser # {}

\* the user payload of a response, if it has one
HasUserPayload ==
    \/ last.op \in {"signup", "signin"} /\ "user" \in DOMAIN last.resp
    \/ /\ last.op \in {"get_profile", "update_profile", "get_user_by_id"}
       /\ "body" \in DOMAIN last.resp

UserPayload ==
    IF last.op \in {"signup", "signin"} THEN last.resp.user
    ELSE last.resp.body

\* the payload that the route of the last response produces for a user
PayloadFor(user) ==
    IF last.op \in {"signup", "signin"} THEN to_public_dict(user)
    ELSE UserResponse(to_public_dict(user))

\* C6: the user payload of a response of signup, signin, GET and PUT
\* /api/user/profile and GET /api/user/{user_id} has no password field, and
\* it is the payload produced for the same user with any other password.
C6_NoPasswordInResponses ==
    HasUserPayload
    => /\ "password" \notin DOMAIN UserPayload
       /\ \A pw \in Passwords, salt \in Salts :
             PayloadFor([last.loc.user EXCEPT
                            !.password = hash_password(pw, salt)])
             = UserPayload

\* a profile route just returned a stored user
C6_Witness ==
    /\ last.op \in {"get_profile", "update_profile", "get_user_by_id"}
    /\ "body" \in DOMAIN last.resp
    /\ last.loc.user \in users
    /\ \E pw \in Passwords, salt \in Salts :
          hash_password(pw, salt) # last.loc.user.password

(***************************************************************************)
(* Mess ratings: models/mess.py and the rating routes of mess_router.py.   *)
(***************************************************************************)
MaxRatings == 2    \* ratings a mess holds at most

RECURSIVE Sum(_)
Sum(s) == IF s = <<>> THEN 0 ELSE Head(s) + Sum(Tail(s))

\* isinstance(rating, (int, float)); the rating route stores ints only
IsNumber(rating) == rating \in Int

\* Mess.calculate_average_rating.  The quotient sum / count is the pair
\* <<sum, count>>, and 0.0 is <<0, 1>>.
calculate_average_rating(mess) ==
    IF mess.Ratings = <<>>
    THEN <<0, 1>>
    ELSE LET valid_ratings == SelectSeq(mess.Ratings, IsNumber)
         IN IF valid_ratings = <<>>
            THEN <<0, 1>>
            ELSE <<Sum(valid_ratings), Len(valid_ratings)>>

\* Mess.has_user_rated: user_id in [str(uid) for uid in self.RatedBy]
has_user_rated(mess, user_id) ==
    \E i \in DOMAIN mess.RatedBy : OidToStr(mess.RatedBy[i]) = user_id

\* Mess.add_rating on the handler's copy of the document.  The rating is
\* appended before ObjectId(user_id) raises for a malformed user_id.
add_rating(mess, user_id, rating) ==
    IF has_user_rated(mess, user_id)
    THEN [raised |-> FALSE, mess |-> mess]
    ELSE LET rated == [mess EXCEPT !.Ratings = Append(@, rating)]
         IN IF IsValidOid(user_id)
            THEN [raised |-> FALSE,
                  mess |-> [rated EXCEPT
                               !.RatedBy = Append(@, PydanticObjectId(user_id))]]
            ELSE [raised |-> TRUE, mess |-> rated]

\* MessService.get_mess_by_id: the documents Mess.get(ObjectId(mess_id))
\* returns; none when mess_id is malformed
get_mess_by_id(mess_id) ==
    IF IsValidOid(mess_id)
    THEN {m \in messes : m.id = PydanticObjectId(mess_id)}
    ELSE {}

\* the body of the 200 response of update_rating
RatingSubmitted(mess) ==
    [status |-> HTTP_200_OK,
     success |-> TRUE,
     message |-> "Rating submitted successfully",
     rating |-> calculate_average_rating(mess),
     total_ratings |-> Len(mess.Ratings)]

\* PUT /api/mess/rating/{mess_id}/{user_id}, up to the save
UpdateRatingGet(p, mess_id, user_id, rating) ==
    /\ CanStart(p)
    /\ \A m \in messes : Len(m.Ratings) < MaxRatings
    /\ LET args == [mess_id |-> mess_id, user_id |-> user_id,
                    rating |-> rating]
           found == get_mess_by_id(mess_id)
       IN IF rating < 1 \/ rating > 5
          THEN Respond(p, "update_rating", args, <<>>,
                       HTTPException(HTTP_400_BAD_REQUEST,
                                     <<"Rating must be between 1 and 5">>))
          ELSE IF found = {}
          THEN Respond(p, "update_rating", args, <<>>,
                       convert_exception_to_http(NotFoundError("Mess")))
          ELSE \E mess \in found :
                  IF has_user_rated(mess, user_id)
                  THEN Respond(p, "update_rating", args, [mess |-> mess],
                               HTTPException(HTTP_400_BAD_REQUEST,
                                   <<"You have already rated this mess">>))
                  ELSE LET added == add_rating(mess, user_id, rating)
                       IN IF added.raised
                          THEN Respond(p, "update_rating", args,
                                       [mess |-> mess], InternalServerError)
                          ELSE At(p, "update_rating", "rating_save", args,
                                  [mess |-> added.mess])
    /\ UNCHANGED <<users, messes, plans, subs, passes, checkins, posts, now,
                   nextOid, signedUp>>

\* await mess.save() and the 200 response
UpdateRatingSave(p) ==
    /\ procs[p].pc = "rating_save"
    /\ LET mess == procs[p].loc.mess
       IN /\ messes' = Save(messes, mess)
          /\ Respond(p, "update_rating", procs[p].args, [mess |-> mess],
                     RatingSubmitted(mess))
    /\ UNCHANGED <<users, plans, subs, passes, checkins, posts, now, nextOid,
                   signedUp>>

\* GET /api/mess/rating/{mess_id}
GetRating(p, mess_id) ==
    /\ CanStart(p)
    /\ LET args == [mess_id |-> mess_id]
           found == get_mess_by_id(mess_id)
       IN IF found = {}
          THEN Respond(p, "get_rating", args, <<>>,
                       convert_exception_to_http(NotFoundError("Mess")))
          ELSE \E mess \in found :
                  Respond(p, "get_rating", args, [mess |-> mess],
                          [status |-> HTTP_200_OK,
                           success |-> TRUE,
                           rating |-> calculate_average_rating(mess),
                           total_ratings |-> Len(mess.Ratings)])
    /\ UNCHANGED <<users, messes, plans, subs, passes, checkins, posts, now,
                   nextOid, signedUp>>

\* setattr(mess, key, value) for update_data = payload.dict(exclude_none=True)
SetAttrs(mess, update_data) ==
    [key \in DOMAIN mess |->
        IF key \in DOMAIN update_data THEN update_data[key] ELSE mess[key]]

\* PUT /api/mess/update/{owner_id}, up to the save
UpdateMessGet(p, owner_id, payload) ==
    /\ CanStart(p)
    /\ LET args == [owner_id |-> owner_id, payload |-> payload]
           found == {m \in messes : m.Owner_ID = PydanticObjectId(owner_id)}
       IN IF ~IsValidOid(owner_id)
          THEN Respond(p, "update_mess", args, <<>>,
                       HTTPException(HTTP_500_INTERNAL_SERVER_ERROR,
                                     <<"Internal Server Error">>))
          ELSE IF found = {}
          THEN Respond(p, "update_mess", args, <<>>,
                       HTTPException(HTTP_404_NOT_FOUND, <<"Mess not found">>))
          ELSE \E mess \in found :
                  At(p, "update_mess", "mess_save", args,
                     [mess |-> SetAttrs(mess, payload)])
    /\ UNCHANGED <<users, messes, plans, subs, passes, checkins, posts, now,
                   nextOid, signedUp>>

\* Mess.to_dict
MessToDict(mess) ==
    [id |-> OidToStr(mess.id),
     Mess_ID |-> mess.Mess_ID,
     Mess_Name |-> mess.Mess_Name,
     Mobile_No |-> mess.Mobile_No,
     Capacity |-> mess.Capacity,
     Address |-> mess.Address,
     Owner_ID |-> OidToStr(mess.Owner_ID),
     Description |-> mess.Description,
     average_rating |-> calculate_average_rating(mess),
     total_ratings |-> Len(mess.Ratings),
     Image |-> mess.Image,
     Ratings |-> mess.Ratings,
     RatedBy |-> [i \in DOMAIN mess.RatedBy |-> OidToStr(mess.RatedBy[i])],
     created_at |-> mess.created_at]

\* await mess.save() and the 200 response
UpdateMessSave(p) ==
    /\ procs[p].pc = "mess_save"
    /\ LET mess == procs[p].loc.mess
       IN /\ messes' = Save(messes, mess)
          /\ Respond(p, "update_mess", procs[p].args, [mess |-> mess],
                     [status |-> HTTP_200_OK,
                      success |-> TRUE,
                      message |-> "Mess updated successfully",
                      mess |-> MessToDict(mess)])
    /\ UNCHANGED <<users, plans, subs, passes, checkins, posts, now, nextOid,
                   signedUp>>

(***************************************************************************)
(* The rating routes on a database that holds one mess owner and the mess  *)
(* that the owner's signup created.                                        *)
(***************************************************************************)
OwnerOid == 1
MessOid == 2

MessOwnerBob ==
    [id |-> OwnerOid,
     username |-> "bob",
     email |-> "b@x.io",
     password |-> hash_password("pw1", "s1"),
     Login_Role |-> MESS_OWNER,
     UserID |-> 0,
     created_at |-> 0,
     updated_at |-> 0]

InitRating ==
    /\ now = 0
    /\ users = {MessOwnerBob}
    /\ messes = {NewMessForOwner(MessOid, OidToStr(OwnerOid), MessOwnerBob)}
    /\ plans = {}
    /\ subs = {}
    /\ passes = {}
    /\ checkins = {}
    /\ posts = {}
    /\ nextOid = 3
    /\ procs = [p \in Procs |-> Idle]
    /\ last = NoResponse
    /\ signedUp = {}

\* the path and body parameters the clients send
RatingMessIds == {[oid |-> 2, form |-> "lower"], [oid |-> 9, form |-> "lower"]}

RatingUserIds ==
    {[oid |-> 3, form |-> "lower"], [oid |-> 3, form |-> "upper"],
     [oid |-> 4, form |-> "lower"], [oid |-> 5, form |-> "bad"]}

RatingValues == {0, 2, 5, 6}

OwnerIds == {[oid |-> 1, form |-> "lower"], [oid |-> 1, form |-> "bad"],
             [oid |-> 9, form |-> "lower"]}

UpdateMessPayloads == {[Capacity |-> 40]}

RatingStep(p) ==
    \/ \E mess_id \in RatingMessIds, user_id \in RatingUserIds,
          rating \in RatingValues :
            UpdateRatingGet(p, mess_id, user_id, rating)
    \/ UpdateRatingSave(p)
    \/ \E mess_id \in RatingMessIds : GetRating(p, mess_id)
    \/ \E owner_id \in OwnerIds, payload \in UpdateMessPayloads :
            UpdateMessGet(p, owner_id, payload)
    \/ UpdateMessSave(p)

NextRating == \E p \in Procs : RatingStep(p)

\* concurrent rating and mess-update requests
SpecRating == InitRating /\ [][NextRating]_vars

(***************************************************************************)
(* Claims on the rating routes.                                            *)
(***************************************************************************)
\* the users a mess document records as having rated it
RatedUsers(mess) == {mess.RatedBy[i] : i \in DOMAIN mess.RatedBy}

\* the user that user_id names is in RatedBy
AlreadyRated(mess, user_id) ==
    /\ IsValidOid(user_id)
    /\ PydanticObjectId(user_id) \in RatedUsers(mess)

\* C8: PUT /api/mess/rating/{mess_id}/{user_id} answers 400 and leaves the
\* messes unchanged when the rating is outside 1..5 or when the user that
\* user_id names is already in RatedBy of the mess; every other request for
\* a stored mess goes on to the save, and the save appends the rating to
\* Ratings and the user to RatedBy of the stored mess and changes no other
\* field and no other mess.
C8_RatingEndpoint ==
    [][/\ \A p \in Procs, mess_id \in RatingMessIds,
             user_id \in RatingUserIds, rating \in RatingValues :
            UpdateRatingGet(p, mess_id, user_id, rating) =>
                /\ rating \notin 1..5 =>
                        Rejected(HTTP_400_BAD_REQUEST) /\ messes' = messes
                /\ \A mess \in get_mess_by_id(mess_id) :
                      IF rating \notin 1..5 \/ AlreadyRated(mess, user_id)
                      THEN Rejected(HTTP_400_BAD_REQUEST) /\ messes' = messes
                      ELSE procs'[p].pc = "rating_save"
       /\ \A p \in Procs :
            UpdateRatingSave(p) =>
                LET args == procs[p].args
                IN /\ last'.resp.status = HTTP_200_OK
                   /\ \E m \in get_mess_by_id(args.mess_id) :
                        messes' = (messes \ {m}) \cup
                            {[m EXCEPT
                                !.Ratings = Append(@, args.rating),
                                !.RatedBy =
                                    Append(@, PydanticObjectId(args.user_id))]}
      ]_vars

\* C9: the average that the rating routes report is 0.0 for a mess without
\* ratings and the mean of the ratings otherwise; for a mess with at least
\* one rating it lies in [1, 5], and the reported total_ratings is the
\* number of distinct users who rated the mess.
C9_AverageAndTotal ==
    (last.op \in {"get_rating", "update_rating"}
        /\ last.resp.status = HTTP_200_OK) =>
        LET mess == last.loc.mess
            n == Len(mess.Ratings)
        IN /\ n = 0 => last.resp.rating = <<0, 1>>
           /\ n > 0 =>
                /\ last.resp.rating = <<Sum(mess.Ratings), n>>
                /\ n <= Sum(mess.Ratings)
                /\ Sum(mess.Ratings) <= 5 * n
                /\ last.resp.total_ratings = Cardinality(RatedUsers(mess))

(***************************************************************************)
(* Subscriptions and meal passes: routers/subscription_router.py.          *)
(* A datetime is a number of days.  The documents are modelled without    *)
(* created_at and updated_at, and the QR payload without its timestamp.    *)
(***************************************************************************)
Durations == {"Daily", "Weekly", "Monthly"}

\* the end date of a weekly plan computed as for a daily plan
SubscriptionEndDate_WeeklyAsDaily(start_date, duration) ==
    IF duration \in {"Daily", "Weekly"} THEN start_date + 1
    ELSE IF duration = "Monthly" THEN start_date + 30
    ELSE start_date

\* subscribe_to_plan: end_date = start_date + timedelta(days=1 | 7 | 30)
SubscriptionEndDate(start_date, duration) ==
    IF duration = "Daily" THEN start_date + 1
    ELSE IF duration = "Weekly" THEN start_date + 7
    ELSE IF duration = "Monthly" THEN start_date + 30
    ELSE start_date

\* UserSubscription(...) of subscribe_to_plan with the defaults of the model
NewSubscription(id, user, plan, start_date, end_date) ==
    [id |-> id,
     userId |-> user.id,
     planId |-> plan.id,
     startDate |-> start_date,
     endDate |-> end_date,
     status |-> "Pending",
     paymentId |-> None,
     paymentStatus |-> "Pending",
     cancellationReason |-> None]

\* UserSubscription.to_dict
SubscriptionToDict(subscription) ==
    [id |-> OidToStr(subscription.id),
     userId |-> OidToStr(subscription.userId),
     planId |-> OidToStr(subscription.planId),
     startDate |-> subscription.startDate,
     endDate |-> subscription.endDate,
     status |-> subscription.status,
     paymentId |-> subscription.paymentId,
     paymentStatus |-> subscription.paymentStatus,
     cancellationReason |-> subscription.cancellationReason]

\* hashlib.sha256(json.dumps(qr_data, sort_keys=True)).hexdigest(), taken
\* to be injective
QrString(user, subscription, plan) ==
    <<"sha256", OidToStr(plan.messId), plan.mealType, OidToStr(plan.id),
      OidToStr(subscription.id), OidToStr(user.id)>>

\* MealPass(...) of subscribe_to_plan with the defaults of the model
NewMealPass(id, user, subscription, plan, qr_string, start_date, end_date) ==
    [id |-> id,
     userId |-> user.id,
     subscriptionId |-> subscription.id,
     messId |-> plan.messId,
     qrCode |-> qr_string,
     isActive |-> TRUE,
     isBlocked |-> FALSE,
     blockReason |-> None,
     validFrom |-> start_date,
     validTill |-> end_date]

\* the subscriptions stored for the user and the plan that two id strings
\* name
SubscriptionsOf(userId, planId) ==
    {sub \in subs : /\ IsValidOid(userId)
                    /\ IsValidOid(planId)
                    /\ sub.userId = PydanticObjectId(userId)
                    /\ sub.planId = PydanticObjectId(planId)}

\* POST /api/subscriptions/subscribe: User.get and the role check.  The
\* local `prior` is history: a subscription of this user to this plan was
\* stored when the request was received.
SubscribeGetUser(p, userId, planId) ==
    /\ CanStart(p)
    /\ LET args == [userId |-> userId, planId |-> planId]
           found == {u \in users : u.id = PydanticObjectId(userId)}
           forbidden == HTTPException(HTTP_403_FORBIDDEN,
                            <<"Only users can subscribe to plans">>)
           prior == SubscriptionsOf(userId, planId) # {}
       IN IF ~IsValidOid(userId)
          THEN Respond(p, "subscribe", args, [prior |-> prior],
                       InternalServerError)
          ELSE IF found = {}
          THEN Respond(p, "subscribe", args, [prior |-> prior], forbidden)
          ELSE \E user \in found :
                  IF ~is_regular_user(user)
                  THEN Respond(p, "subscribe", args, [prior |-> prior],
                               forbidden)
                  ELSE At(p, "subscribe", "sub_plan", args,
                          [prior |-> prior, user |-> user])
    /\ UNCHANGED <<users, messes, plans, subs, passes, checkins, posts, now,
                   nextOid, signedUp>>

\* SubscriptionPlan.get and the isActive check
SubscribeGetPlan(p) ==
    /\ procs[p].pc = "sub_plan"
    /\ LET args == procs[p].args
           loc == procs[p].loc
           found == {plan \in plans : plan.id = PydanticObjectId(args.planId)}
           notFound == HTTPException(HTTP_404_NOT_FOUND,
                           <<"Plan not found or inactive">>)
       IN IF ~IsValidOid(args.planId)
          THEN Respond(p, "subscribe", args, loc, InternalServerError)
          ELSE IF found = {}
          THEN Respond(p, "subscribe", args, loc, notFound)
          ELSE \E plan \in found :
                  IF ~plan.isActive
                  THEN Respond(p, "subscribe", args, loc, notFound)
                  ELSE At(p, "subscribe", "sub_existing", args,
                          [prior |-> loc.prior, user |-> loc.user,
                           plan |-> plan])
    /\ UNCHANGED <<users, messes, plans, subs, passes, checkins, posts, now,
                   nextOid, signedUp>>

\* a query for the earlier subscriptions that are still pending or active
SubscribeFindExisting_OpenOnly(p) ==
    /\ procs[p].pc = "sub_existing"
    /\ LET args == procs[p].args
           loc == procs[p].loc
           existing == {sub \in subs : /\ sub.userId = loc.user.id
                                       /\ sub.planId = loc.plan.id
                                       /\ sub.status \in {"Pending", "Active"}}
           start_date == now
           end_date == SubscriptionEndDate(start_date, loc.plan.duration)
       IN IF existing # {}
          THEN Respond(p, "subscribe", args, loc,
                       HTTPException(HTTP_400_BAD_REQUEST,
                           <<"You have already subscribed to this plan before.",
                             "Each plan can only be subscribed once.">>))
          ELSE At(p, "subscribe", "sub_save", args,
                  [prior |-> loc.prior, user |-> loc.user, plan |-> loc.plan,
                   start_date |-> start_date, end_date |-> end_date])
    /\ UNCHANGED <<users, messes, plans, subs, passes, checkins, posts, now,
                   nextOid, signedUp>>

\* UserSubscription.find_one(userId, planId), the dates and the new
\* UserSubscription object
SubscribeFindExisting(p) ==
    /\ procs[p].pc = "sub_existing"
    /\ LET args == procs[p].args
           loc == procs[p].loc
           existing == {sub \in subs : /\ sub.userId = loc.user.id
                                       /\ sub.planId = loc.plan.id}
           start_date == now
           end_date == SubscriptionEndDate(start_date, loc.plan.duration)
       IN IF existing # {}
          THEN Respond(p, "subscribe", args, loc,
                       HTTPException(HTTP_400_BAD_REQUEST,
                           <<"You have already subscribed to this plan before.",
                             "Each plan can only be subscribed once.">>))
          ELSE At(p, "subscribe", "sub_save", args,
                  [prior |-> loc.prior, user |-> loc.user, plan |-> loc.plan,
                   start_date |-> start_date, end_date |-> end_date])
    /\ UNCHANGED <<users, messes, plans, subs, passes, checkins, posts, now,
                   nextOid, signedUp>>

\* await subscription.save(), then qr_data and the new MealPass object
SubscribeSaveSubscription(p) ==
    /\ procs[p].pc = "sub_save"
    /\ LET loc == procs[p].loc
           subscription == NewSubscription(nextOid, loc.user, loc.plan,
                               loc.start_date, loc.end_date)
           meal_pass == NewMealPass(None, loc.user, subscription, loc.plan,
                            QrString(loc.user, subscription, loc.plan),
                            loc.start_date, loc.end_date)
       IN /\ subs' = subs \cup {subscription}
          /\ nextOid' = nextOid + 1
          /\ At(p, "subscribe", "sub_pass", procs[p].args,
                [prior |-> loc.prior, user |-> loc.user, plan |-> loc.plan,
                 subscription |-> subscription, meal_pass |-> meal_pass])
    /\ UNCHANGED <<users, messes, plans, passes, checkins, posts, now,
                   signedUp>>

\* await meal_pass.save() and the 200 response
SubscribeSaveMealPass(p) ==
    /\ procs[p].pc = "sub_pass"
    /\ LET loc == procs[p].loc
           meal_pass == [loc.meal_pass EXCEPT !.id = nextOid]
       IN /\ passes' = passes \cup {meal_pass}
          /\ nextOid' = nextOid + 1
          /\ Respond(p, "subscribe", procs[p].args,
                     [loc EXCEPT !.meal_pass = meal_pass],
                     [status |-> HTTP_200_OK,
                      body |-> SubscriptionToDict(loc.subscription)])
    /\     /\ UNCHANGED <<users, messes, plans, subs, checkins, posts, now,
                   signedUp>>

\* the mess owner sends plan updates and status updates one at a time
NoMaintenanceInFlight ==
    \A q \in Procs : procs[q].op \notin {"update_plan", "activate"}

\* SubscriptionPlan.to_dict
PlanToDict(plan) ==
    [id |-> OidToStr(plan.id),
     messId |-> OidToStr(plan.messId),
     planName |-> plan.planName,
     duration |-> plan.duration,
     mealType |-> plan.mealType,
     price |-> plan.price,
     description |-> plan.description,
     isActive |-> plan.isActive]

\* PUT /api/subscriptions/plans/{plan_id}: SubscriptionPlan.get
UpdatePlanGet(p, plan_id, userId, update_data) ==
    /\ CanStart(p)
    /\ NoMaintenanceInFlight
    /\ LET args == [plan_id |-> plan_id, userId |-> userId,
                    update_data |-> update_data]
           found == {plan \in plans : plan.id = PydanticObjectId(plan_id)}
       IN IF ~IsValidOid(plan_id)
          THEN Respond(p, "update_plan", args, <<>>, InternalServerError)
          ELSE IF found = {}
          THEN Respond(p, "update_plan", args, <<>>,
                       HTTPException(HTTP_404_NOT_FOUND, <<"Plan not found">>))
          ELSE \E plan \in found :
                  At(p, "update_plan", "plan_user", args, [plan |-> plan])
    /\ UNCHANGED <<users, messes, plans, subs, passes, checkins, posts, now,
                   nextOid, signedUp>>

\* User.get, the ownership check and the setattr loop
UpdatePlanGetUser(p) ==
    /\ procs[p].pc = "plan_user"
    /\ LET args == procs[p].args
           plan == procs[p].loc.plan
           found == {u \in users : u.id = PydanticObjectId(args.userId)}
           forbidden == HTTPException(HTTP_403_FORBIDDEN,
                            <<"You can only update your own plans">>)
           updated == SetAttrs(plan, args.update_data)
       IN IF ~IsValidOid(args.userId)
          THEN Respond(p, "update_plan", args, [plan |-> plan],
                       InternalServerError)
          ELSE IF found = {}
          THEN Respond(p, "update_plan", args, [plan |-> plan], forbidden)
          ELSE \E user \in found :
                  IF \/ ~is_mess_owner(user)
                     \/ OidToStr(plan.messId) # args.userId
                  THEN Respond(p, "update_plan", args, [plan |-> plan],
                               forbidden)
                  ELSE At(p, "update_plan", "plan_save", args,
                          [plan |-> updated])
    /\ UNCHANGED <<users, messes, plans, subs, passes, checkins, posts, now,
                   nextOid, signedUp>>

\* await plan.save() and the 200 response
UpdatePlanSave(p) ==
    /\ procs[p].pc = "plan_save"
    /\ LET plan == procs[p].loc.plan
       IN /\ plans' = Save(plans, plan)
          /\ Respond(p, "update_plan", procs[p].args, [plan |-> plan],
                     [status |-> HTTP_200_OK, body |-> PlanToDict(plan)])
    /\ UNCHANGED <<users, messes, subs, passes, checkins, posts, now,
                   nextOid, signedUp>>

\* PUT /api/subscriptions/{subscription_id}/activate: UserSubscription.get
ActivateGet(p, subscription_id, status) ==
    /\ CanStart(p)
    /\ NoMaintenanceInFlight
    /\ LET args == [subscription_id |-> subscription_id, status |-> status]
           found == {sub \in subs :
                        sub.id = PydanticObjectId(subscription_id)}
       IN IF ~IsValidOid(subscription_id)
          THEN Respond(p, "activate", args, <<>>, InternalServerError)
          ELSE IF found = {}
          THEN Respond(p, "activate", args, <<>>,
                       HTTPException(HTTP_404_NOT_FOUND,
                                     <<"Subscription not found">>))
          ELSE \E subscription \in found :
                  At(p, "activate", "act_plan", args,
                     [subscription |-> subscription])
    /\ UNCHANGED <<users, messes, plans, subs, passes, checkins, posts, now,
                   nextOid, signedUp>>

\* activate_subscription: the end date of an activated subscription
ActivationEndDate(start_date, duration) ==
    IF duration = "Daily" THEN start_date + 1
    ELSE IF duration = "Weekly" THEN start_date + 7
    ELSE IF duration = "Monthly" THEN start_date + 30
    ELSE start_date

\* SubscriptionPlan.get(subscription.planId) and the status update; the
\* request carries no messId
ActivateGetPlan(p) ==
    /\ procs[p].pc = "act_plan"
    /\ LET args == procs[p].args
           subscription == procs[p].loc.subscription
           found == {plan \in plans : plan.id = subscription.planId}
       IN IF found = {}
          THEN Respond(p, "activate", args, procs[p].loc,
                       HTTPException(HTTP_404_NOT_FOUND, <<"Plan not found">>))
          ELSE \E plan \in found :
                  LET dated ==
                        IF args.status \in {"Cancelled", "Expired"}
                        THEN [subscription EXCEPT !.status = args.status,
                                                  !.endDate = now]
                        ELSE IF args.status = "Active"
                        THEN [subscription EXCEPT
                                !.status = args.status,
                                !.startDate = now,
                                !.endDate =
                                    ActivationEndDate(now, plan.duration)]
                        ELSE [subscription EXCEPT !.status = args.status]
                  IN At(p, "activate", "act_save", args,
                        [subscription |-> dated])
    /\ UNCHANGED <<users, messes, plans, subs, passes, checkins, posts, now,
                   nextOid, signedUp>>

\* await subscription.save() and the 200 response
ActivateSave(p) ==
    /\ procs[p].pc = "act_save"
    /\ LET subscription == procs[p].loc.subscription
       IN /\ subs' = Save(subs, subscription)
          /\ Respond(p, "activate", procs[p].args,
                     [subscription |-> subscription],
                     [status |-> HTTP_200_OK,
                      body |-> SubscriptionToDict(subscription)])
    /\ UNCHANGED <<users, messes, plans, passes, checkins, posts, now,
                   nextOid, signedUp>>

\* datetime.utcnow() advances by a day
Tick ==
    /\ now < MaxClock
    /\ now' = now + 1
    /\ last' = NoResponse
    /\ UNCHANGED <<users, messes, plans, subs, passes, checkins, posts,
                   nextOid, procs, signedUp>>

(***************************************************************************)
(* The subscription routes on a database that holds a user, a mess owner   *)
(* with the mess of the signup, and one active plan of that owner.         *)
(***************************************************************************)
UserOid == 3
PlanOid == 4

UserAnn ==
    [id |-> UserOid,
     username |-> "ann",
     email |-> "a@x.io",
     password |-> hash_password("pw1", "s1"),
     Login_Role |-> USER,
     UserID |-> 0,
     created_at |-> 0,
     updated_at |-> 0]

\* SubscriptionPlan(...) of create_plan with the defaults of the model
NewPlan(id, owner_id, duration) ==
    [id |-> id,
     messId |-> PydanticObjectId(owner_id),
     planName |-> "Lunch",
     duration |-> duration,
     mealType |-> "Veg",
     price |-> 100,
     description |-> "lunch",
     isActive |-> TRUE]

InitSub ==
    /\ now = 0
    /\ users = {MessOwnerBob, UserAnn}
    /\ messes = {NewMessForOwner(MessOid, OidToStr(OwnerOid), MessOwnerBob)}
    /\ \E duration \in Durations :
            plans = {NewPlan(PlanOid, OidToStr(OwnerOid), duration)}
    /\ subs = {}
    /\ passes = {}
    /\ checkins = {}
    /\ posts = {}
    /\ nextOid = 5
    /\ procs = [p \in Procs |-> Idle]
    /\ last = NoResponse
    /\ signedUp = {}

\* the parameters the clients send
SubscribeUserIds ==
    {[oid |-> 3, form |-> "lower"], [oid |-> 1, form |-> "lower"]}

PlanIds == {[oid |-> 4, form |-> "lower"], [oid |-> 9, form |-> "lower"]}

PlanUpdates == {[isActive |-> FALSE]}

SubscriptionIds == {OidToStr(sub.id) : sub \in subs}

StatusUpdates == {"Active", "Cancelled"}

SubStep(p) ==
    \/ \E userId \in SubscribeUserIds, planId \in PlanIds :
            SubscribeGetUser(p, userId, planId)
    \/ SubscribeGetPlan(p)
    \/ SubscribeFindExisting(p)
    \/ SubscribeSaveSubscription(p)
    \/ SubscribeSaveMealPass(p)
    \/ \E update_data \in PlanUpdates :
            UpdatePlanGet(p, OidToStr(PlanOid), OidToStr(OwnerOid),
                          update_data)
    \/ UpdatePlanGetUser(p)
    \/ UpdatePlanSave(p)
    \/ \E subscription_id \in SubscriptionIds, status \in StatusUpdates :
            ActivateGet(p, subscription_id, status)
    \/ ActivateGetPlan(p)
    \/ ActivateSave(p)

NextSub == Tick \/ \E p \in Procs : SubStep(p)

\* concurrent subscribe, plan-update and activation requests
SpecSub == InitSub /\ [][NextSub]_vars

(***************************************************************************)
(* Claims on the subscription routes.                                      *)
(***************************************************************************)
DurationDays == [Daily |-> 1, Weekly |-> 7, Monthly |-> 30]

LaterStep(p) ==
    \/ \E userId \in SubscribeUserIds, planId \in PlanIds :
            /\ SubscriptionsOf(userId, planId) # {}
            /\ SubscribeGetUser(p, userId, planId)
    \/ /\ procs[p].op = "subscribe"
       /\ procs[p].loc.prior
       /\ procs'[p].pc # procs[p].pc

\* a step of a later request leaves the subscriptions and the meal passes
\* alone and does not get to the writes; when it answers, the status is
\* inactiveStatus if the plan read by the request is missing or inactive
\* and 400 otherwise
LaterStepRejected(p, inactiveStatus) ==
    LaterStep(p) =>
        /\ subs' = subs
        /\ passes' = passes
        /\ procs'[p].pc \in {"idle", "sub_plan", "sub_existing"}
        /\ procs'[p].pc = "idle" =>
            IF procs[p].pc = "sub_plan"
            THEN Rejected(inactiveStatus)
            ELSE Rejected(HTTP_400_BAD_REQUEST)

\* C10: once a UserSubscription for (user, plan) is stored, whatever its
\* status, every subscribe request for the same user and plan that is
\* received later is rejected with HTTP 400 and creates neither a
\* subscription nor a meal pass.
C10_LaterSubscribeRejected400 ==
    [][\A p \in Procs : LaterStepRejected(p, HTTP_400_BAD_REQUEST)]_vars

\* C10, amended: once a UserSubscription for (user, plan) is stored,
\* whatever its status, every subscribe request for the same user and plan
\* that is received later creates neither a subscription nor a meal pass
\* and is rejected: with HTTP 404 when the plan is missing or inactive at
\* the time the handler reads it, and with HTTP 400 otherwise.
C10_LaterSubscribeRejected ==
    [][\A p \in Procs : LaterStepRejected(p, HTTP_404_NOT_FOUND)]_vars

\* a later request for a cancelled subscription was answered 400
C10_Witness ==
    /\ last.op = "subscribe"
    /\ last.loc.prior
    /\ last.resp.status = HTTP_400_BAD_REQUEST
    /\ \E sub \in SubscriptionsOf(last.args.userId, last.args.planId) :
            sub.status = "Cancelled"


(***************************************************************************)
(* Sessions: the protected routes while tokens expire and users are        *)
(* deleted.                                                                *)
(***************************************************************************)
MaxSessionDays == 2    \* days the clock advances while sessions are open

\* UserService.delete_user: get_user_by_id
DeleteUserGet(p, user_id) ==
    /\ CanStart(p)
    /\ LET args == [user_id |-> user_id]
           found == {u \in users : /\ IsValidOid(user_id)
                                   /\ u.id = PydanticObjectId(user_id)}
       IN IF found = {}
          THEN Respond(p, "delete_user", args, <<>>,
                       convert_exception_to_http(NotFoundError("User")))
          ELSE \E user \in found :
                  At(p, "delete_user", "user_delete", args, [user |-> user])
    /\ UNCHANGED <<users, messes, plans, subs, passes, checkins, posts, now,
                   nextOid, signedUp>>

\* await user.delete(); the method returns True
DeleteUserDelete(p) ==
    /\ procs[p].pc = "user_delete"
    /\ LET user == procs[p].loc.user
       IN /\ users' = {u \in users : u.id # user.id}
          /\ Respond(p, "delete_user", procs[p].args, [user |-> user],
                     [status |-> HTTP_200_OK, body |-> TRUE])
    /\ UNCHANGED <<messes, plans, subs, passes, checkins, posts, now,
                   nextOid, signedUp>>

\* datetime.utcnow() advances by a day while sessions are open
SessionTick ==
    /\ now < MaxSessionDays
    /\ now' = now + 1
    /\ last' = NoResponse
    /\ UNCHANGED <<users, messes, plans, subs, passes, checkins, posts,
                   nextOid, procs, signedUp>>

DeleteUserIds == {[oid |-> 1, form |-> "lower"], [oid |-> 2, form |-> "bad"]}

NextSession ==
    \/ AuthStep(1)
    \/ ReadStep(1)
    \/ \E user_id \in DeleteUserIds : DeleteUserGet(1, user_id)
    \/ DeleteUserDelete(1)
    \/ SessionTick

\* signups, protected routes, user deletions and clock ticks, one request
\* at a time
SpecSession == InitAuth /\ [][NextSession]_vars

\* the user that a presented token names is stored
TokenUserExists(access_token) ==
    \E u \in users : /\ IsValidOid(access_token.id)
                     /\ u.id = PydanticObjectId(access_token.id)

\* the latest response answers a request to a protected route whose cookie
\* is missing, whose token has expired or whose user is not stored
Unauthenticated ==
    /\ last.op \in {"get_profile", "get_user_by_id", "update_profile"}
    /\ \/ last.args.access_token = NoToken
       \/ /\ last.args.access_token # NoToken
          /\ \/ last.args.access_token.exp < now
             \/ ~TokenUserExists(last.args.access_token)

\* C11: a request to a route protected by get_current_user is answered 401
\* when the access_token cookie is missing, when the token has expired and
\* when the token is valid but the user it names is no longer stored; the
\* handler body does not run, so no user is handed to it.
C11_UnauthenticatedIs401 ==
    Unauthenticated =>
        /\ last.resp.status = HTTP_401_UNAUTHORIZED
        /\ "user" \notin DOMAIN last.loc


(***************************************************************************)
(* The owner routes PUT and DELETE /api/mess/{mess_id} with                *)
(* MessService.update_mess and MessService.delete_mess.                    *)
(***************************************************************************)
AuthorizationError(message) ==
    [message |-> <<message>>, status_code |-> HTTP_403_FORBIDDEN]

\* get_current_mess_owner on top of get_current_user
get_current_mess_owner(access_token) ==
    LET dep == get_current_user(access_token)
    IN IF dep.ok /\ ~is_mess_owner(dep.user)
       THEN [ok |-> FALSE,
             resp |-> HTTPException(HTTP_403_FORBIDDEN,
                          <<"Only Mess Owners can perform this action">>)]
       ELSE dep

\* the fields MessService.update_mess may set
allowed_fields ==
    {"Mess_Name", "Mobile_No", "Capacity", "Address", "Description", "Image"}

\* the setattr loop of MessService.update_mess and the new updated_at
SetAllowedFields(mess, update_fields) ==
    [field \in DOMAIN mess |->
        IF field \in DOMAIN update_fields /\ field \in allowed_fields
        THEN update_fields[field]
        ELSE IF field = "updated_at" THEN now ELSE mess[field]]

\* PUT /api/mess/{mess_id}: the dependency get_current_mess_owner
UpdateMessAuth(p, access_token, mess_id, update_data) ==
    /\ CanStart(p)
    /\ LET args == [access_token |-> access_token, mess_id |-> mess_id,
                    update_data |-> update_data]
           dep == get_current_mess_owner(access_token)
       IN IF ~dep.ok
          THEN Respond(p, "svc_update_mess", args, <<>>, dep.resp)
          ELSE At(p, "svc_update_mess", "svc_update_get", args,
                  [current_user |-> dep.user])
    /\ UNCHANGED <<users, messes, plans, subs, passes, checkins, posts, now,
                   nextOid, signedUp>>

\* MessService.update_mess: get_mess_by_id, the ownership check and the
\* setattr loop
UpdateMessCheck(p) ==
    /\ procs[p].pc = "svc_update_get"
    /\ LET args == procs[p].args
           loc == procs[p].loc
           owner_id == OidToStr(loc.current_user.id)
           found == get_mess_by_id(args.mess_id)
       IN IF found = {}
          THEN Respond(p, "svc_update_mess", args, loc,
                       convert_exception_to_http(NotFoundError("Mess")))
          ELSE \E mess \in found :
                  IF OidToStr(mess.Owner_ID) # owner_id
                  THEN Respond(p, "svc_update_mess", args,
                               [current_user |-> loc.current_user,
                                mess |-> mess],
                               convert_exception_to_http(AuthorizationError(
                                   "You can only update your own mess")))
                  ELSE At(p, "svc_update_mess", "svc_update_save", args,
                          [current_user |-> loc.current_user,
                           mess |-> SetAllowedFields(mess, args.update_data)])
    /\ UNCHANGED <<users, messes, plans, subs, passes, checkins, posts, now,
                   nextOid, signedUp>>

\* await mess.save() and the 200 response
UpdateMessStore(p) ==
    /\ procs[p].pc = "svc_update_save"
    /\ LET mess == procs[p].loc.mess
       IN /\ messes' = Save(messes, mess)
          /\ Respond(p, "svc_update_mess", procs[p].args, procs[p].loc,
                     [status |-> HTTP_200_OK, body |-> MessToDict(mess)])
    /\ UNCHANGED <<users, plans, subs, passes, checkins, posts, now, nextOid,
                   signedUp>>

\* DELETE /api/mess/{mess_id}: the dependency get_current_mess_owner
DeleteMessAuth(p, access_token, mess_id) ==
    /\ CanStart(p)
    /\ LET args == [access_token |-> access_token, mess_id |-> mess_id]
           dep == get_current_mess_owner(access_token)
       IN IF ~dep.ok
          THEN Respond(p, "svc_delete_mess", args, <<>>, dep.resp)
          ELSE At(p, "svc_delete_mess", "svc_delete_get", args,
                  [current_user |-> dep.user])
    /\ UNCHANGED <<users, messes, plans, subs, passes, checkins, posts, now,
                   nextOid, signedUp>>

\* MessService.delete_mess: get_mess_by_id and the ownership check
DeleteMessCheck(p) ==
    /\ procs[p].pc = "svc_delete_get"
    /\ LET args == procs[p].args
           loc == procs[p].loc
           owner_id == OidToStr(loc.current_user.id)
           found == get_mess_by_id(args.mess_id)
       IN IF found = {}
          THEN Respond(p, "svc_delete_mess", args, loc,
                       convert_exception_to_http(NotFoundError("Mess")))
          ELSE \E mess \in found :
                  IF OidToStr(mess.Owner_ID) # owner_id
                  THEN Respond(p, "svc_delete_mess", args,
                               [current_user |-> loc.current_user,
                                mess |-> mess],
                               convert_exception_to_http(AuthorizationError(
                                   "You can only delete your own mess")))
                  ELSE At(p, "svc_delete_mess", "svc_delete", args,
                          [current_user |-> loc.current_user, mess |-> mess])
    /\ UNCHANGED <<users, messes, plans, subs, passes, checkins, posts, now,
                   nextOid, signedUp>>

\* await mess.delete() and the 200 response
DeleteMessRemove(p) ==
    /\ procs[p].pc = "svc_delete"
    /\ LET mess == procs[p].loc.mess
       IN /\ messes' = {m \in messes : m.id # mess.id}
          /\ Respond(p, "svc_delete_mess", procs[p].args, procs[p].loc,
                     [status |-> HTTP_200_OK,
                      success |-> TRUE,
                      message |-> "Mess deleted successfully"])
    /\ UNCHANGED <<users, plans, subs, passes, checkins, posts, now, nextOid,
                   signedUp>>

(***************************************************************************)
(* The owner routes and the rating route on a database with two mess       *)
(* owners, their messes and a user.                                        *)
(***************************************************************************)
CarlOid == 6
CarlMessOid == 7

MessOwnerCarl ==
    [MessOwnerBob EXCEPT !.id = CarlOid, !.username = "carl",
                         !.email = "c@x.io"]

InitMess ==
    /\ now = 0
    /\ users = {MessOwnerBob, MessOwnerCarl, UserAnn}
    /\ messes = {NewMessForOwner(MessOid, OidToStr(OwnerOid), MessOwnerBob),
                 NewMessForOwner(CarlMessOid, OidToStr(CarlOid),
                                 MessOwnerCarl)}
    /\ plans = {}
    /\ subs = {}
    /\ passes = {}
    /\ checkins = {}
    /\ posts = {}
    /\ nextOid = 8
    /\ procs = [p \in Procs |-> Idle]
    /\ last = NoResponse
    /\ signedUp = {}

\* the cookies of the stored users
UserTokens == {create_token(OidToStr(u.id), u.Login_Role) : u \in users}

MessStep(p) ==
    \/ \E access_token \in UserTokens :
            UpdateMessAuth(p, access_token, OidToStr(MessOid),
                           [Capacity |-> 40])
    \/ UpdateMessCheck(p)
    \/ UpdateMessStore(p)
    \/ \E access_token \in UserTokens :
            DeleteMessAuth(p, access_token, OidToStr(MessOid))
    \/ DeleteMessCheck(p)
    \/ DeleteMessRemove(p)
    \/ \E user_id \in RatingUserIds :
            UpdateRatingGet(p, OidToStr(MessOid), user_id, 5)
    \/ UpdateRatingSave(p)

NextMess == \E p \in Procs : MessStep(p)

\* concurrent owner updates, owner deletions and ratings of one mess
SpecMess == InitMess /\ [][NextMess]_vars


\* the fields a successful update_mess may change
UpdatableFields == allowed_fields \cup {"updated_at"}

\* the request in slot p leaves position pc in this step
Leaves(p, pc) == procs[p].pc = pc /\ procs'[p].pc # pc

\* C12: update_mess and delete_mess answer 403 and leave the stored messes
\* unchanged when owner_id differs from the Owner_ID of the mess; the save
\* of update_mess replaces the stored mess of the owner by a mess that
\* differs from it only in Mess_Name, Mobile_No, Capacity, Address,
\* Description, Image and updated_at (Owner_ID, Mess_ID, Ratings and
\* RatedBy keep their stored values) and changes no other mess; the delete
\* of delete_mess removes nothing but the owner's mess.
C12_OwnerOnlyAndFrame ==
    [][\A p \in Procs :
        /\ (Leaves(p, "svc_update_get") \/ Leaves(p, "svc_delete_get"))
              => \A mess \in get_mess_by_id(procs[p].args.mess_id) :
                    OidToStr(mess.Owner_ID)
                        # OidToStr(procs[p].loc.current_user.id)
                    => Rejected(HTTP_403_FORBIDDEN) /\ messes' = messes
        /\ Leaves(p, "svc_update_save")
              => \E stored \in messes : \E updated \in messes' :
                    /\ stored.id = procs[p].loc.mess.id
                    /\ updated.id = stored.id
                    /\ OidToStr(stored.Owner_ID)
                           = OidToStr(procs[p].loc.current_user.id)
                    /\ messes' \ {updated} = messes \ {stored}
                    /\ \A field \in DOMAIN stored \ UpdatableFields :
                           updated[field] = stored[field]
        /\ Leaves(p, "svc_delete")
              => /\ messes' \subseteq messes
                 /\ \A removed \in messes \ messes' :
                       /\ removed.id = procs[p].loc.mess.id
                       /\ OidToStr(removed.Owner_ID)
                              = OidToStr(procs[p].loc.current_user.id)
      ]_vars


\* the meal passes stored for the subscriptions of a user to a plan
PassesOf(userId, planId) ==
    {pass \in passes :
        \E sub \in subs : /\ sub.id = pass.subscriptionId
                          /\ sub.userId = userId
                          /\ sub.planId = planId}

\* C13: in every reachable state of concurrent subscribe requests, at most
\* one UserSubscription and at most one meal pass is stored for each pair
\* of a user and a plan.
C13_OneSubscriptionPerUserAndPlan ==
    \A user \in users : \A plan \in plans :
        /\ Cardinality({sub \in subs : /\ sub.userId = user.id
                                       /\ sub.planId = plan.id}) <= 1
        /\ Cardinality(PassesOf(user.id, plan.id)) <= 1


(***************************************************************************)
(* Check-ins: POST /api/checkin/{mess_id}.  The path parameter mess_id is  *)
(* not used by the handler.  created_at of a check-in is the day on which  *)
(* the handler builds the document.                                        *)
(***************************************************************************)
JSONResponse(status_code, message) ==
    [status |-> status_code, content |-> [message |-> message]]

\* CheckIn(...) of create_checkin with the defaults of the model
NewCheckIn(id, meal_pass, mealType) ==
    [id |-> id,
     userId |-> meal_pass.userId,
     messId |-> meal_pass.messId,
     mealPassId |-> meal_pass.id,
     mealType |-> mealType,
     status |-> "success",
     failureReason |-> None,
     created_at |-> now]

\* CheckIn.to_dict
CheckInToDict(checkin) ==
    [id |-> OidToStr(checkin.id),
     userId |-> OidToStr(checkin.userId),
     messId |-> OidToStr(checkin.messId),
     mealPassId |-> OidToStr(checkin.mealPassId),
     mealType |-> checkin.mealType,
     status |-> checkin.status,
     failureReason |-> checkin.failureReason,
     createdAt |-> checkin.created_at]

\* the model stops receiving check-in requests when the stored check-ins
\* and the requests in flight reach MaxCheckins
MaxCheckins == 3

CheckinsInFlight == {q \in Procs : procs[q].op = "create_checkin"}

\* MealPass.get and the isActive / isBlocked check
CreateCheckinGetPass(p, mealPassId, mealType) ==
    /\ CanStart(p)
    /\ Cardinality(checkins) + Cardinality(CheckinsInFlight) < MaxCheckins
    /\ LET args == [mealPassId |-> mealPassId, mealType |-> mealType]
           found == {mp \in passes : mp.id = PydanticObjectId(mealPassId)}
       IN IF ~IsValidOid(mealPassId)
          THEN Respond(p, "create_checkin", args, <<>>, InternalServerError)
          ELSE IF found = {}
          THEN Respond(p, "create_checkin", args, <<>>,
                       JSONResponse(HTTP_404_NOT_FOUND,
                                    <<"Meal pass not found">>))
          ELSE \E meal_pass \in found :
                  IF ~meal_pass.isActive \/ meal_pass.isBlocked
                  THEN Respond(p, "create_checkin", args,
                               [meal_pass |-> meal_pass],
                               JSONResponse(HTTP_403_FORBIDDEN,
                                   <<"Meal pass is inactive or blocked">>))
                  ELSE At(p, "create_checkin", "checkin_sub", args,
                          [meal_pass |-> meal_pass])
    /\ UNCHANGED <<users, messes, plans, subs, passes, checkins, posts, now,
                   nextOid, signedUp>>

\* UserSubscription.get and the status check
CreateCheckinGetSubscription(p) ==
    /\ procs[p].pc = "checkin_sub"
    /\ LET args == procs[p].args
           loc == procs[p].loc
           found == {sub \in subs : sub.id = loc.meal_pass.subscriptionId}
       IN IF found = {}
          THEN Respond(p, "create_checkin", args, loc,
                       JSONResponse(HTTP_404_NOT_FOUND,
                                    <<"Subscription not found">>))
          ELSE \E subscription \in found :
                  IF subscription.status # "Active"
                  THEN Respond(p, "create_checkin", args, loc,
                               JSONResponse(HTTP_403_FORBIDDEN,
                                   <<"Subscription is not active. Current status",
                                     subscription.status>>))
                  ELSE At(p, "create_checkin", "checkin_existing", args,
                          [meal_pass |-> loc.meal_pass,
                           subscription |-> subscription])
    /\ UNCHANGED <<users, messes, plans, subs, passes, checkins, posts, now,
                   nextOid, signedUp>>

\* the check-ins of the pass for the meal type created on day `day`
CheckinsOn(mealPassId, mealType, day) ==
    {c \in checkins : /\ c.mealPassId = mealPassId
                      /\ c.mealType = mealType
                      /\ c.created_at >= day
                      /\ c.created_at < day + 1}

\* CheckIn.find_one for today and the construction of the check-in
CreateCheckinFindExisting(p) ==
    /\ procs[p].pc = "checkin_existing"
    /\ LET args == procs[p].args
           loc == procs[p].loc
           today_start == now
       IN IF CheckinsOn(loc.meal_pass.id, args.mealType, today_start) # {}
          THEN Respond(p, "create_checkin", args, loc,
                       JSONResponse(HTTP_400_BAD_REQUEST,
                           <<"Already checked in for this meal today">>))
          ELSE At(p, "create_checkin", "checkin_insert", args,
                  [meal_pass |-> loc.meal_pass,
                   subscription |-> loc.subscription,
                   checkin |-> NewCheckIn(None, loc.meal_pass,
                                          args.mealType)])
    /\ UNCHANGED <<users, messes, plans, subs, passes, checkins, posts, now,
                   nextOid, signedUp>>

\* await checkin.insert() and the 201 response
CreateCheckinInsert(p) ==
    /\ procs[p].pc = "checkin_insert"
    /\ LET loc == procs[p].loc
           checkin == [loc.checkin EXCEPT !.id = nextOid]
       IN /\ checkins' = checkins \cup {checkin}
          /\ nextOid' = nextOid + 1
          /\ Respond(p, "create_checkin", procs[p].args,
                     [loc EXCEPT !.checkin = checkin],
                     [status |-> HTTP_201_CREATED,
                      body |-> CheckInToDict(checkin)])
    /\ UNCHANGED <<users, messes, plans, subs, passes, posts, now, signedUp>>


(***************************************************************************)
(* POST /api/mealpass/validate/{user_id}.  The path parameter user_id is   *)
(* not used by the handler.                                                *)
(***************************************************************************)
\* MealPass.to_dict
MealPassToDict(meal_pass) ==
    [id |-> OidToStr(meal_pass.id),
     userId |-> OidToStr(meal_pass.userId),
     subscriptionId |-> OidToStr(meal_pass.subscriptionId),
     messId |-> OidToStr(meal_pass.messId),
     qrCode |-> meal_pass.qrCode,
     isActive |-> meal_pass.isActive,
     isBlocked |-> meal_pass.isBlocked,
     blockReason |-> meal_pass.blockReason,
     validFrom |-> meal_pass.validFrom,
     validTill |-> meal_pass.validTill]

\* the pass is valid on the day
WithinValidity_NoUpperBound(meal_pass, day) ==
    ~(day < meal_pass.validFrom)

WithinValidity(meal_pass, day) ==
    ~(day < meal_pass.validFrom \/ day > meal_pass.validTill)

\* MealPass.find_one by QR code and the checks of the pass
ValidateFindPass(p, qrCode) ==
    /\ CanStart(p)
    /\ LET args == [qrCode |-> qrCode]
           found == {mp \in passes : mp.qrCode = qrCode}
       IN IF found = {}
          THEN Respond(p, "validate", args, <<>>,
                       HTTPException(HTTP_404_NOT_FOUND,
                                     <<"Invalid QR code">>))
          ELSE \E meal_pass \in found :
                  LET loc == [meal_pass |-> meal_pass]
                  IN IF meal_pass.isBlocked
                     THEN Respond(p, "validate", args, loc,
                                  HTTPException(HTTP_403_FORBIDDEN,
                                      <<"User is blocked",
                                        meal_pass.blockReason>>))
                     ELSE IF ~meal_pass.isActive
                     THEN Respond(p, "validate", args, loc,
                                  HTTPException(HTTP_403_FORBIDDEN,
                                      <<"Meal pass is not active">>))
                     ELSE IF ~WithinValidity(meal_pass, now)
                     THEN Respond(p, "validate", args, loc,
                                  HTTPException(HTTP_403_FORBIDDEN,
                                      <<"Meal pass has expired">>))
                     ELSE At(p, "validate", "val_sub", args, loc)
    /\ UNCHANGED <<users, messes, plans, subs, passes, checkins, posts, now,
                   nextOid, signedUp>>

\* UserSubscription.get and the status check
ValidateGetSubscription(p) ==
    /\ procs[p].pc = "val_sub"
    /\ LET args == procs[p].args
           loc == procs[p].loc
           found == {sub \in subs : sub.id = loc.meal_pass.subscriptionId}
       IN IF found = {}
          THEN Respond(p, "validate", args, loc,
                       HTTPException(HTTP_404_NOT_FOUND,
                                     <<"Subscription not found">>))
          ELSE \E subscription \in found :
                  IF subscription.status # "Active"
                  THEN Respond(p, "validate", args, loc,
                               HTTPException(HTTP_403_FORBIDDEN,
                                   <<"Subscription is not active">>))
                  ELSE At(p, "validate", "val_user", args,
                          [meal_pass |-> loc.meal_pass,
                           subscription |-> subscription])
    /\ UNCHANGED <<users, messes, plans, subs, passes, checkins, posts, now,
                   nextOid, signedUp>>

\* User.get
ValidateGetUser(p) ==
    /\ procs[p].pc = "val_user"
    /\ LET args == procs[p].args
           loc == procs[p].loc
           found == {u \in users : u.id = loc.meal_pass.userId}
       IN IF found = {}
          THEN Respond(p, "validate", args, loc,
                       HTTPException(HTTP_404_NOT_FOUND,
                                     <<"User not found">>))
          ELSE \E user \in found :
                  At(p, "validate", "val_plan", args,
                     [meal_pass |-> loc.meal_pass,
                      subscription |-> loc.subscription,
                      user |-> user])
    /\ UNCHANGED <<users, messes, plans, subs, passes, checkins, posts, now,
                   nextOid, signedUp>>

\* SubscriptionPlan.get and the response {"valid": True, "mealPass": ...}
ValidateGetPlan(p) ==
    /\ procs[p].pc = "val_plan"
    /\ LET args == procs[p].args
           loc == procs[p].loc
           found == {plan \in plans : plan.id = loc.subscription.planId}
           user_info == [_id |-> OidToStr(loc.user.id),
                         username |-> loc.user.username,
                         email |-> loc.user.email]
           with_user == [MealPassToDict(loc.meal_pass)
                            EXCEPT !.userId = user_info]
           mealPass ==
               IF found = {}
               THEN {with_user}
               ELSE {[with_user EXCEPT !.subscriptionId =
                        [_id |-> OidToStr(loc.subscription.id),
                         status |-> loc.subscription.status,
                         planId |-> [_id |-> OidToStr(plan.id),
                                     planName |-> plan.planName,
                                     mealType |-> plan.mealType,
                                     duration |-> plan.duration]]] :
                        plan \in found}
       IN \E meal_pass_dict \in mealPass :
             Respond(p, "validate", args, loc,
                     [status |-> HTTP_200_OK, valid |-> TRUE,
                      mealPass |-> meal_pass_dict])
    /\ UNCHANGED <<users, messes, plans, subs, passes, checkins, posts, now,
                   nextOid, signedUp>>


(***************************************************************************)
(* Check-in, validation and activation on a database that holds the        *)
(* subscription and the meal pass which a subscribe request of day 0       *)
(* stored for a Daily plan.  No route writes isActive or isBlocked of a    *)
(* meal pass; the stored values are drawn here.                            *)
(***************************************************************************)
MaxPassDays == 2

SubOid == 5
PassOid == 6

PassFlags ==
    {[isActive |-> TRUE, isBlocked |-> FALSE],
     [isActive |-> FALSE, isBlocked |-> FALSE],
     [isActive |-> TRUE, isBlocked |-> TRUE]}

DailyPlan == NewPlan(PlanOid, OidToStr(OwnerOid), "Daily")

StoredSubscription(status) ==
    [NewSubscription(SubOid, UserAnn, DailyPlan, 0,
                     SubscriptionEndDate(0, "Daily"))
        EXCEPT !.status = status]

StoredMealPass(flags) ==
    [NewMealPass(PassOid, UserAnn, StoredSubscription("Pending"), DailyPlan,
                 QrString(UserAnn, StoredSubscription("Pending"), DailyPlan),
                 0, SubscriptionEndDate(0, "Daily"))
        EXCEPT !.isActive = flags.isActive, !.isBlocked = flags.isBlocked]

InitPass ==
    /\ now = 0
    /\ users = {MessOwnerBob, UserAnn}
    /\ messes = {NewMessForOwner(MessOid, OidToStr(OwnerOid), MessOwnerBob)}
    /\ plans = {DailyPlan}
    /\ \E status \in {"Pending", "Active"} :
            subs = {StoredSubscription(status)}
    /\ \E flags \in PassFlags : passes = {StoredMealPass(flags)}
    /\ checkins = {}
    /\ posts = {}
    /\ nextOid = 7
    /\ procs = [p \in Procs |-> Idle]
    /\ last = NoResponse
    /\ signedUp = {}

\* a day passes
PassTick ==
    /\ now < MaxPassDays
    /\ now' = now + 1
    /\ last' = NoResponse
    /\     /\ UNCHANGED <<users, messes, plans, subs, passes, checkins, posts,
                   nextOid, procs, signedUp>>

\* the parameters the clients send
MealPassIds ==
    {OidToStr(PassOid), OidToStr(9), [oid |-> PassOid, form |-> "bad"]}

MealTypes == {"lunch", "dinner"}

QrCodes == {mp.qrCode : mp \in passes} \cup {<<"unknown">>}

ActivateStep(p) ==
    \/ \E subscription_id \in SubscriptionIds, status \in StatusUpdates :
            ActivateGet(p, subscription_id, status)
    \/ ActivateGetPlan(p)
    \/ ActivateSave(p)

CheckinStep(p) ==
    \/ \E mealPassId \in MealPassIds, mealType \in MealTypes :
            CreateCheckinGetPass(p, mealPassId, mealType)
    \/ CreateCheckinGetSubscription(p)
    \/ CreateCheckinFindExisting(p)
    \/ CreateCheckinInsert(p)

NextCheckin == Tick \/ \E p \in Procs : CheckinStep(p) \/ ActivateStep(p)

\* concurrent check-ins and status updates over two days
SpecCheckin == InitPass /\ [][NextCheckin]_vars

ValidateStep(p) ==
    \/ \E qrCode \in QrCodes : ValidateFindPass(p, qrCode)
    \/ ValidateGetSubscription(p)
    \/ ValidateGetUser(p)
    \/ ValidateGetPlan(p)
    \/ DeleteUserGet(p, OidToStr(UserOid))
    \/ DeleteUserDelete(p)

NextValidate ==
    PassTick \/ \E p \in Procs : ValidateStep(p) \/ ActivateStep(p)

\* concurrent validations, status updates and removals of the user over
\* three days
SpecValidate == InitPass /\ [][NextValidate]_vars


\* C14: after every step of concurrent check-in requests, no two stored
\* check-ins have the same mealPassId, the same mealType and the same day
\* of creation; and a request that looks for today's check-in when one is
\* stored is answered with 400.
C14_OneCheckinPerMealAndDay ==
    [][/\ \A c1, c2 \in checkins' :
            (/\ c1.mealPassId = c2.mealPassId
             /\ c1.mealType = c2.mealType
             /\ c1.created_at = c2.created_at) => c1 = c2
       /\ \A p \in Procs :
            (/\ Leaves(p, "checkin_existing")
             /\ CheckinsOn(procs[p].loc.meal_pass.id, procs[p].args.mealType,
                           now) # {})
            => Rejected(HTTP_400_BAD_REQUEST)
      ]_vars


\* the stored meal passes that the string names and that are active and
\* not blocked
UsablePasses(mealPassId) ==
    {mp \in passes : /\ IsValidOid(mealPassId)
                     /\ mp.id = PydanticObjectId(mealPassId)
                     /\ mp.isActive
                     /\ ~mp.isBlocked}

\* this step answers a create_checkin request with 404 or 403
CheckinRefused ==
    /\ last'.op = "create_checkin"
    /\ last'.resp.status \in {HTTP_404_NOT_FOUND, HTTP_403_FORBIDDEN}

\* C15: a create_checkin request is answered with 404 or 403 by the step
\* that reads the meal pass when no stored pass with the given id is active
\* and not blocked, and by the step that reads the subscription when the
\* subscription of the pass is not stored with status 'Active'; a check-in
\* is inserted only by the last step of such a request, one at a time, with
\* status 'success' and the userId, messId and mealPassId of the stored
\* pass.
C15_CheckinOnlyForUsablePass ==
    [][/\ \A p \in Procs :
            /\ (/\ procs[p].pc = "idle"
                /\ procs'[p].op = "create_checkin"
                /\ UsablePasses(procs'[p].args.mealPassId) = {})
               => FALSE
            /\ (/\ Leaves(p, "checkin_sub")
                /\ ~\E sub \in subs :
                        /\ sub.id = procs[p].loc.meal_pass.subscriptionId
                        /\ sub.status = "Active")
               => CheckinRefused
       /\ (/\ last'.op = "create_checkin"
           /\ \A q \in Procs : procs'[q].pc = procs[q].pc
           /\ UsablePasses(last'.args.mealPassId) = {})
          => CheckinRefused
       /\ checkins' # checkins
          => \E p \in Procs : \E checkin \in checkins' \ checkins :
                /\ Leaves(p, "checkin_insert")
                /\ checkins' = checkins \cup {checkin}
                /\ checkin.status = "success"
                /\ \E mp \in passes :
                      /\ checkin.mealPassId = mp.id
                      /\ checkin.userId = mp.userId
                      /\ checkin.messId = mp.messId
      ]_vars


\* the stored meal passes with the QR code that are not blocked, active and
\* valid today
ValidPasses(qrCode) ==
    {mp \in passes : /\ mp.qrCode = qrCode
                     /\ ~mp.isBlocked
                     /\ mp.isActive
                     /\ mp.validFrom <= now
                     /\ now <= mp.validTill}

\* this step answers a validate request with 404 or 403
ValidateRefused ==
    /\ last'.op = "validate"
    /\ last'.resp.status \in {HTTP_404_NOT_FOUND, HTTP_403_FORBIDDEN}
    /\ "valid" \notin DOMAIN last'.resp

\* this step belongs to a validate request
ValidateActs ==
    \/ last'.op = "validate"
    \/ \E p \in Procs : /\ procs'[p].op = "validate"
                        /\ procs'[p].pc # procs[p].pc

\* C16: validate_meal_pass answers 404 or 403 in the step that looks for
\* the pass when no stored pass with the QR code is unblocked, active and
\* within [validFrom, validTill] today, in the step that reads the
\* subscription when it is not stored with status 'Active', and in the step
\* that reads the user when the user is not stored; valid = true is answered
\* only by the last step of a request that passed these three; and no step
\* of the request changes a collection.
C16_ValidateOnlyValidPass ==
    [][/\ \A p \in Procs :
            /\ (/\ procs[p].pc = "idle"
                /\ procs'[p].op = "validate")
               => ValidPasses(procs'[p].args.qrCode) # {}
            /\ (/\ Leaves(p, "val_sub")
                /\ ~\E sub \in subs :
                        /\ sub.id = procs[p].loc.meal_pass.subscriptionId
                        /\ sub.status = "Active")
               => ValidateRefused
            /\ (/\ Leaves(p, "val_user")
                /\ ~\E u \in users : u.id = procs[p].loc.meal_pass.userId)
               => ValidateRefused
       /\ (/\ last'.op = "validate"
           /\ \A q \in Procs : procs'[q].pc = procs[q].pc)
          => /\ ValidateRefused
             /\ ValidPasses(last'.args.qrCode) = {}
       /\ (last'.op = "validate" /\ ~ValidateRefused)
          => /\ \E p \in Procs : Leaves(p, "val_plan")
             /\ last'.resp.status = HTTP_200_OK
             /\ last'.resp.valid = TRUE
       /\ ValidateActs
          => UNCHANGED <<users, messes, plans, subs, passes, checkins, posts>>
      ]_vars

\* a validation was answered valid = true
C16_Witness ==
    /\ last.op = "validate"
    /\ "valid" \in DOMAIN last.resp
    /\ last.resp.valid = TRUE


\* C20: in every reachable state, every subscription with status 'Active'
\* has a meal pass, and each of its meal passes has validFrom equal to the
\* startDate and validTill equal to the endDate of the subscription.
C20_PassInStepWithSubscription ==
    \A sub \in subs :
        sub.status = "Active"
        => /\ \E mp \in passes : mp.subscriptionId = sub.id
           /\ \A mp \in passes :
                 mp.subscriptionId = sub.id
                 => /\ mp.validFrom = sub.startDate
                    /\ mp.validTill = sub.endDate


(***************************************************************************)
(* DELETE /api/subscriptions/plans/{plan_id}/{mess_id}                     *)
(***************************************************************************)
\* SubscriptionPlan.get and the ownership check
DeletePlanGet(p, plan_id, mess_id) ==
    /\ CanStart(p)
    /\ LET args == [plan_id |-> plan_id, mess_id |-> mess_id]
           found == {plan \in plans : plan.id = PydanticObjectId(plan_id)}
       IN IF ~IsValidOid(plan_id)
          THEN Respond(p, "delete_plan", args, <<>>, InternalServerError)
          ELSE IF found = {}
          THEN Respond(p, "delete_plan", args, <<>>,
                       HTTPException(HTTP_404_NOT_FOUND,
                                     <<"Plan not found">>))
          ELSE \E plan \in found :
                  IF OidToStr(plan.messId) # mess_id
                  THEN Respond(p, "delete_plan", args, [plan |-> plan],
                               HTTPException(HTTP_403_FORBIDDEN,
                                   <<"You can only delete your own plans">>))
                  ELSE At(p, "delete_plan", "plan_subs", args,
                          [plan |-> plan])
    /\ UNCHANGED <<users, messes, plans, subs, passes, checkins, posts, now,
                   nextOid, signedUp>>

\* UserSubscription.find(planId == plan.id).to_list()
DeletePlanFindSubscriptions(p) ==
    /\ procs[p].pc = "plan_subs"
    /\ LET loc == procs[p].loc
       IN At(p, "delete_plan", "plan_loop", procs[p].args,
             [plan |-> loc.plan,
              subscriptions |-> {sub \in subs : sub.planId = loc.plan.id}])
    /\ UNCHANGED <<users, messes, plans, subs, passes, checkins, posts, now,
                   nextOid, signedUp>>

\* one round of the loop: the three assignments and await sub.save().  The
\* list comes in the order of the document store, here any order.
DeletePlanSaveSubscription(p) ==
    /\ procs[p].pc = "plan_loop"
    /\ LET loc == procs[p].loc
       IN \E sub \in loc.subscriptions :
             /\ subs' = Save(subs,
                    [sub EXCEPT !.status = "Plan Removed",
                                !.endDate = now,
                                !.cancellationReason =
                                    "Plan deleted by mess owner"])
             /\ At(p, "delete_plan", "plan_loop", procs[p].args,
                   [plan |-> loc.plan,
                    subscriptions |-> loc.subscriptions \ {sub}])
    /\     /\ UNCHANGED <<users, messes, plans, passes, checkins, posts, now,
                   nextOid, signedUp>>

\* await plan.delete() after the loop and the 200 response
DeletePlanDelete(p) ==
    /\ procs[p].pc = "plan_loop"
    /\ procs[p].loc.subscriptions = {}
    /\ plans' = {plan \in plans : plan.id # procs[p].loc.plan.id}
    /\ Respond(p, "delete_plan", procs[p].args, procs[p].loc,
               [status |-> HTTP_200_OK,
                success |-> TRUE,
                message |->
                    <<"Plan deleted successfully",
                      "and related subscriptions updated">>])
    /\     /\ UNCHANGED <<users, messes, subs, passes, checkins, posts, now,
                   nextOid, signedUp>>

\* the subscribe route and the delete route of the plan
PlanStep(p) ==
    \/ \E userId \in SubscribeUserIds, planId \in PlanIds :
            SubscribeGetUser(p, userId, planId)
    \/ SubscribeGetPlan(p)
    \/ SubscribeFindExisting(p)
    \/ SubscribeSaveSubscription(p)
    \/ SubscribeSaveMealPass(p)
    \/ \E plan_id \in PlanIds, mess_id \in {OidToStr(OwnerOid),
                                            OidToStr(UserOid)} :
            DeletePlanGet(p, plan_id, mess_id)
    \/ DeletePlanFindSubscriptions(p)
    \/ DeletePlanSaveSubscription(p)
    \/ DeletePlanDelete(p)

NextPlan == \E p \in Procs : PlanStep(p)

\* concurrent subscribe and delete_plan requests
SpecPlan == InitSub /\ [][NextPlan]_vars

\* C17: the plans of SpecPlan disappear only in the last step of a
\* delete_plan request that is answered 200; in every reachable state each
\* UserSubscription whose plan is no longer stored has status
\* 'Plan Removed' and cancellationReason 'Plan deleted by mess owner'.
C17_DeletedPlanHasNoOpenSubscription ==
    \A sub \in subs :
        (~\E plan \in plans : plan.id = sub.planId)
        => /\ sub.status = "Plan Removed"
           /\ sub.cancellationReason = "Plan deleted by mess owner"


(***************************************************************************)
(* Forum polls: create_post, vote_poll and update_post.  A post keeps the  *)
(* fields these handlers read or write for polls; pollOptions None and []  *)
(* are both <<>> (the handlers test them with `not`).  The votes of an     *)
(* option are the user_id strings of the requests.  Every handler wraps    *)
(* all exceptions, its own HTTPException included, into a 500 response.    *)
(***************************************************************************)
MaxPosts == 1

\* except Exception as e: raise HTTPException(status_code=500, detail=str(e))
ForumError(detail) == HTTPException(HTTP_500_INTERNAL_SERVER_ERROR, detail)

\* ForumPost(**post_data) of create_post
NewPost(id, user_id, payload) ==
    [id |-> id,
     title |-> payload.title,
     content |-> payload.content,
     author |-> PydanticObjectId(user_id),
     type |-> payload.type,
     pollOptions |->
         IF payload.type = "poll" /\ payload.pollOptions # <<>>
         THEN [i \in 1..Len(payload.pollOptions) |->
                  [text |-> payload.pollOptions[i], votes |-> <<>>]]
         ELSE <<>>,
     isPollActive |-> TRUE]

\* ForumPost.to_dict
PostToDict(post) ==
    [_id |-> OidToStr(post.id),
     title |-> post.title,
     content |-> post.content,
     author |-> OidToStr(post.author),
     type |-> post.type,
     isPollActive |-> post.isPollActive,
     pollOptions |-> post.pollOptions]

PostsInFlight == {q \in Procs : procs[q].op = "create_post"}

\* POST /api/forum/posts/create/{user_id}: User.get and the post data
CreatePostGetUser(p, user_id, payload) ==
    /\ CanStart(p)
    /\ Cardinality(posts) + Cardinality(PostsInFlight) < MaxPosts
    /\ LET args == [user_id |-> user_id, payload |-> payload]
       IN IF ~IsValidOid(user_id)
          THEN Respond(p, "create_post", args, <<>>,
                       ForumError(<<"InvalidId">>))
          ELSE IF ~\E u \in users : u.id = PydanticObjectId(user_id)
          THEN Respond(p, "create_post", args, <<>>,
                       ForumError(<<HTTP_404_NOT_FOUND, "User not found">>))
          ELSE At(p, "create_post", "post_insert", args,
                  [post |-> NewPost(None, user_id, payload)])
    /\ UNCHANGED <<users, messes, plans, subs, passes, checkins, posts, now,
                   nextOid, signedUp>>

\* await post.insert() and the 200 response
CreatePostInsert(p) ==
    /\ procs[p].pc = "post_insert"
    /\ LET post == [procs[p].loc.post EXCEPT !.id = nextOid]
       IN /\ posts' = posts \cup {post}
          /\ nextOid' = nextOid + 1
          /\ Respond(p, "create_post", procs[p].args, [post |-> post],
                     [status |-> HTTP_200_OK, body |-> PostToDict(post)])
    /\     /\ UNCHANGED <<users, messes, plans, subs, passes, checkins, now,
                   signedUp>>

\* [v for v in votes if v != user_id]
WithoutVote(votes, user_id) ==
    SelectSeq(votes, LAMBDA v : v # user_id)

\* the two loops of vote_poll: remove the previous vote, add the new one
CastVote(pollOptions, user_id, optionIndex) ==
    [i \in 1..Len(pollOptions) |->
        LET cleared == WithoutVote(pollOptions[i].votes, user_id)
        IN [text |-> pollOptions[i].text,
            votes |-> IF 0 <= optionIndex /\ optionIndex < Len(pollOptions)
                         /\ i = optionIndex + 1
                      THEN Append(cleared, user_id)
                      ELSE cleared]]

\* POST /api/forum/posts/{post_id}/vote/{user_id}: ForumPost.get
VotePollGetPost(p, post_id, user_id, optionIndex) ==
    /\ CanStart(p)
    /\ LET args == [post_id |-> post_id, user_id |-> user_id,
                    optionIndex |-> optionIndex]
           found == {post \in posts : post.id = PydanticObjectId(post_id)}
           usable == {post \in found :
                        post.isPollActive /\ post.pollOptions # <<>>}
       IN IF ~IsValidOid(post_id)
          THEN Respond(p, "vote_poll", args, <<>>,
                       ForumError(<<"InvalidId">>))
          ELSE IF usable = {}
          THEN Respond(p, "vote_poll", args, <<>>,
                       ForumError(<<HTTP_404_NOT_FOUND,
                                    "Poll not found or inactive">>))
          ELSE \E post \in usable :
                  At(p, "vote_poll", "vote_user", args, [post |-> post])
    /\ UNCHANGED <<users, messes, plans, subs, passes, checkins, posts, now,
                   nextOid, signedUp>>

\* User.get and the two loops
VotePollGetUser(p) ==
    /\ procs[p].pc = "vote_user"
    /\ LET args == procs[p].args
           loc == procs[p].loc
       IN IF ~IsValidOid(args.user_id)
          THEN Respond(p, "vote_poll", args, loc,
                       ForumError(<<"InvalidId">>))
          ELSE IF ~\E u \in users : u.id = PydanticObjectId(args.user_id)
          THEN Respond(p, "vote_poll", args, loc,
                       ForumError(<<HTTP_404_NOT_FOUND, "User not found">>))
          ELSE At(p, "vote_poll", "vote_save", args,
                  [post |-> [loc.post EXCEPT !.pollOptions =
                                CastVote(@, args.user_id,
                                         args.optionIndex)]])
    /\ UNCHANGED <<users, messes, plans, subs, passes, checkins, posts, now,
                   nextOid, signedUp>>

\* await post.save() and the 200 response
VotePollSave(p) ==
    /\ procs[p].pc = "vote_save"
    /\ LET post == procs[p].loc.post
       IN /\ posts' = Save(posts, post)
          /\ Respond(p, "vote_poll", procs[p].args, procs[p].loc,
                     [status |-> HTTP_200_OK, body |-> PostToDict(post)])
    /\     /\ UNCHANGED <<users, messes, plans, subs, passes, checkins, now,
                   nextOid, signedUp>>

\* the first option of the post with the text, if any
ExistingOption(pollOptions, option_text) ==
    LET matching == {i \in 1..Len(pollOptions) :
                        pollOptions[i].text = option_text}
    IN IF matching = {}
       THEN {}
       ELSE {pollOptions[CHOOSE i \in matching :
                            \A j \in matching : i <= j]}

\* the loop of update_post that keeps the votes of unchanged options
new_poll_options(post, option_texts) ==
    [i \in 1..Len(option_texts) |->
        LET existing == ExistingOption(post.pollOptions, option_texts[i])
        IN IF existing # {}
           THEN CHOOSE option \in existing : TRUE
           ELSE [text |-> option_texts[i], votes |-> <<>>]]

\* PUT /api/forum/posts/{post_id}/{user_id}: ForumPost.get, the author
\* check and the assignments
UpdatePostGet(p, post_id, user_id, payload) ==
    /\ CanStart(p)
    /\ LET args == [post_id |-> post_id, user_id |-> user_id,
                    payload |-> payload]
           found == {post \in posts : post.id = PydanticObjectId(post_id)}
       IN IF ~IsValidOid(post_id)
          THEN Respond(p, "update_post", args, <<>>,
                       ForumError(<<"InvalidId">>))
          ELSE IF found = {}
          THEN Respond(p, "update_post", args, <<>>,
                       ForumError(<<HTTP_404_NOT_FOUND, "Post not found">>))
          ELSE \E post \in found :
                  IF OidToStr(post.author) # user_id
                  THEN Respond(p, "update_post", args, [post |-> post],
                               ForumError(<<HTTP_403_FORBIDDEN,
                                   "You can only edit your own posts">>))
                  ELSE At(p, "update_post", "post_save", args,
                          [post |->
                             [post EXCEPT
                                !.title = payload.title,
                                !.content = payload.content,
                                !.type = payload.type,
                                !.pollOptions =
                                    IF payload.type = "poll"
                                       /\ payload.pollOptions # <<>>
                                    THEN new_poll_options(post,
                                             payload.pollOptions)
                                    ELSE @]])
    /\ UNCHANGED <<users, messes, plans, subs, passes, checkins, posts, now,
                   nextOid, signedUp>>

\* await post.save() and the 200 response
UpdatePostSave(p) ==
    /\ procs[p].pc = "post_save"
    /\ LET post == procs[p].loc.post
       IN /\ posts' = Save(posts, post)
          /\ Respond(p, "update_post", procs[p].args, procs[p].loc,
                     [status |-> HTTP_200_OK, body |-> PostToDict(post)])
    /\     /\ UNCHANGED <<users, messes, plans, subs, passes, checkins, now,
                   nextOid, signedUp>>

(***************************************************************************)
(* The poll routes on a database with two users and no post.               *)
(***************************************************************************)
InitForum ==
    /\ now = 0
    /\ users = {MessOwnerBob, UserAnn}
    /\ messes = {NewMessForOwner(MessOid, OidToStr(OwnerOid), MessOwnerBob)}
    /\ plans = {}
    /\ subs = {}
    /\ passes = {}
    /\ checkins = {}
    /\ posts = {}
    /\ nextOid = 5
    /\ procs = [p \in Procs |-> Idle]
    /\ last = NoResponse
    /\ signedUp = {}

\* the parameters the clients send
PollPayload(type, pollOptions) ==
    [title |-> "menu", content |-> "vote", type |-> type,
     pollOptions |-> pollOptions]

CreatePostPayloads ==
    {PollPayload("poll", <<"A", "B">>), PollPayload("general", <<>>)}

UpdatePostPayloads ==
    {PollPayload("poll", <<"A", "A">>), PollPayload("poll", <<"B", "C">>),
     PollPayload("general", <<>>)}

VoterIds ==
    {OidToStr(UserOid), [oid |-> UserOid, form |-> "upper"],
     OidToStr(OwnerOid), [oid |-> UserOid, form |-> "bad"]}

PostIds == {OidToStr(5), OidToStr(9)}

OptionIndexes == {0, 1, 2}

ForumStep(p) ==
    \/ \E payload \in CreatePostPayloads :
            CreatePostGetUser(p, OidToStr(OwnerOid), payload)
    \/ CreatePostInsert(p)
    \/ \E post_id \in PostIds, user_id \in VoterIds,
          optionIndex \in OptionIndexes :
            VotePollGetPost(p, post_id, user_id, optionIndex)
    \/ VotePollGetUser(p)
    \/ VotePollSave(p)
    \/ \E post_id \in PostIds, user_id \in {OidToStr(OwnerOid),
                                            OidToStr(UserOid)},
          payload \in UpdatePostPayloads :
            UpdatePostGet(p, post_id, user_id, payload)
    \/ UpdatePostSave(p)

\* one request at a time
NextForum == ForumStep(1)

\* any sequence of create_post, vote_poll and update_post requests
SpecForum == InitForum /\ [][NextForum]_vars


\* the places <<option, position>> of the votes of the user in the post
VotesOf(post, userId) ==
    {place \in (1..Len(post.pollOptions)) \X (1..2 * Cardinality(users) + 2) :
        /\ place[2] <= Len(post.pollOptions[place[1]].votes)
        /\ PydanticObjectId(post.pollOptions[place[1]].votes[place[2]])
               = userId}

\* C18: in every state reached by a sequence of create_post, vote_poll and
\* update_post requests, each stored user has at most one vote in each
\* stored post; and after a vote_poll answered 200 for an option of the
\* poll, the user's only vote in the stored post is in that option.
C18_OneVotePerUserAndPoll ==
    /\ \A post \in posts : \A u \in users :
            Cardinality(VotesOf(post, u.id)) <= 1
    /\ (/\ last.op = "vote_poll"
        /\ last.resp.status = HTTP_200_OK
        /\ last.args.optionIndex < Len(last.loc.post.pollOptions))
       => \A post \in posts :
             post.id = last.loc.post.id
             => \E place \in VotesOf(post,
                                     PydanticObjectId(last.args.user_id)) :
                   /\ place[1] = last.args.optionIndex + 1
                   /\ VotesOf(post, PydanticObjectId(last.args.user_id))
                          = {place}


\* the elements of a list
Elements(list) == {list[i] : i \in 1..Len(list)}

\* C19: every rating stored by update_rating was answered 'Rating submitted
\* successfully' in the step that stored it, and no later step of a rating
\* or of a mess profile update loses it: across every step the mess stays
\* stored, every user of its RatedBy stays in RatedBy and every value of
\* its Ratings stays in Ratings.
C19_NoRatingLost ==
    [][/\ \A mess \in messes :
            \E after \in messes' :
                /\ after.id = mess.id
                /\ Elements(mess.RatedBy) \subseteq Elements(after.RatedBy)
                /\ Elements(mess.Ratings) \subseteq Elements(after.Ratings)
       /\ \A mess \in messes' \ messes :
            Len(mess.Ratings) > 0
            => \/ \E before \in messes :
                     /\ before.id = mess.id
                     /\ before.Ratings = mess.Ratings
                     /\ before.RatedBy = mess.RatedBy
               \/ /\ last'.op = "update_rating"
                  /\ last'.resp.status = HTTP_200_OK
                  /\ last'.resp.message = "Rating submitted successfully"
      ]_vars

====
